---------------------------- MODULE Spec2Model ----------------------------
(***************************************************************************)
(* State-machine model of yapgeir's batched renderer and of the GLES2      *)
(* backend's state mirror.                                                 *)
(*                                                                         *)
(* The module holds several specifications over disjoint groups of         *)
(* variables; each specification keeps the other groups at their initial   *)
(* values:                                                                 *)
(*   BatchSpec   crates/yapgeir_renderer_2d/src/batch_renderer.rs          *)
(*   TexSpec     texture units, samplers and sampler uniforms of           *)
(*               crates/yapgeir_graphics_hal_gles2 (context.rs,            *)
(*               texture.rs, samplers.rs, frame_buffer.rs bind_textures)   *)
(*   SetSpec     the draw parameter setters of context.rs, one at a time,  *)
(*               between draw calls                                        *)
(*   ParamSpec   the draw parameters under draw, clear and blit calls      *)
(*   BindSpec    the framebuffer, render buffer, buffer, vertex array and  *)
(*               program bindings under the creation, use and drop of the  *)
(*               objects bound; the program binding is the one variable    *)
(*               it shares with TexSpec                                    *)
(*   FlipSpec    the fake default framebuffer of                           *)
(*               fake_default_framebuffer.rs, made and destroyed as the    *)
(*               window is resized                                         *)
(*   QuadSpec    crates/yapgeir_renderer_2d/src/quad_index_buffer.rs and   *)
(*               the draws that read the index buffer                      *)
(*   BlitImageSpec  the pixels FrameBufferBlitter::blit writes, on both    *)
(*               paths of frame_buffer_blitter.rs                          *)
(*   ByteBufferSpec  Buffer::write and GlesBuffer::write, with the         *)
(*               buffer bindings of BindSpec                               *)
(*   TexDataSpec the assertions and uploads of GlesTexture::new, write     *)
(*               and write_rect                                            *)
(*   AnimSpec    Animator and the update system of                         *)
(*               crates/yapgeir_world_2d_sprites/src/animation.rs          *)
(*   TexelSpec   TextureRegion::to_texel_quad of sprite_renderer.rs        *)
(*   SlotMapSpec crates/yapgeir_collections/src/persistent_slot_map.rs     *)
(*   RunnerSpec  SystemRunner of crates/yapgeir_realm/src/systems/mod.rs   *)
(*   StepSpec    the driver calls and the mirror writes of the setters of  *)
(*               context.rs and of the fallback draw descriptor, one       *)
(*               statement at a time                                       *)
(*   UnitSpec    the texture units of a context made for any driver        *)
(*               maximum, with the unit set aside for the flipper          *)
(*   WindowSpec  the default framebuffer of frame_buffer.rs as the window  *)
(*               is resized and frames are presented                       *)
(*   SamplersSpec  the cache of sampler objects of samplers.rs and its     *)
(*               release when the context is dropped                       *)
(*   TokenSpec   the identity tokens of the draw descriptors of a context  *)
(*               without vertex array objects (draw_descriptor.rs)         *)
(*   UniformSpec bind_uniforms of frame_buffer.rs and the uniform cache of *)
(*               every shader                                              *)
(*   PathSpec    one blit on the native and on the fallback path of        *)
(*               FrameBufferBlitter::blit                                  *)
(* A draw call touches several groups; each specification models the part  *)
(* of the call that acts on its group.  Driver state (what the GL calls    *)
(* issued so far have made current) is held in the gl_* variables.         *)
(***************************************************************************)
EXTENDS Integers, Sequences, FiniteSets, TLC

(***************************************************************************)
(* Bounds of the model.                                                    *)
(***************************************************************************)
MaxCapacity == 8   \* largest buffer_size handed to BatchRenderer::new
MaxRing     == 2   \* largest buffer_count handed to BatchRenderer::new
MaxDrawLen  == 4   \* longest slice handed to one Batch::draw call
MaxTotal    == 8   \* most vertices accepted by the draw calls of one batch
MaxTextures == 2   \* texture handles the driver hands out
MaxBuffers  == 2   \* buffer handles the driver hands out
MaxHandles  == 1   \* handles it hands out for each other type of object
MaxQuadSize == 24  \* largest size handed to QuadIndexBuffer::new
MaxImage    == 3   \* largest width and height of a framebuffer copied
MaxBlits    == 2   \* most blits in a row
MaxUsize    == 7   \* usize::MAX, scaled down
MaxBufferLen == 2  \* largest length of a buffer, in bytes
MaxU32      == 3   \* u32::MAX, scaled down
MaxSliceLen == 8   \* longest slice of pixel data
MaxFrames   == 3   \* frames of the animation played
MaxUpdates  == 8   \* updates of the Animator
MaxDeltas   == 4   \* the first updates whose Delta is remembered
MaxElapsed  == 24  \* Animator::elapsed, in hundredths of a second
FrameTime   == 10  \* Animation::frame_time 0.1, in hundredths
MaxTexSize  == 5   \* largest width and height of a sprite's texture
MantissaBits == 3  \* bits of the significand of an f32 (24), scaled down
MaxKeys     == 3   \* keys inserted into a PersistentSlotMap
MaxValues   == 2   \* values inserted into a PersistentSlotMap
MaxSystems  == 3   \* systems pushed into a SystemRunner
MaxUnitOps  == 5   \* operations on the texture units of one context
MaxSwaps    == 2   \* frames presented by swap_buffers
MaxSamplerUnits == 2  \* texture units that take sampler objects
MaxSamplerBinds == 5  \* bind_sampler calls on one context
MaxDescriptors == 3  \* draw descriptors made on one context
MaxUniformLen == 3  \* bytes of a uniform buffer

VARIABLES
    \* ---- BatchRenderer (batch_renderer.rs:112-129) ----
    buffer_size,       \* the capacity given to BatchRenderer::new
    buffer_count,      \* vertices.len(): the number of ring slots
    indices,           \* BatchIndices: "Quad" or "Primitive"
    unflushed,         \* the CPU staging Vec<V>, as a sequence of vertex ids
    vec_capacity,      \* unflushed.capacity()
    current_buffer,    \* index of the ring slot the next flush writes
    \* ---- what the HAL was asked to do and the batch's history ----
    gpu_draws,         \* physical draws of the current batch, in order
    batch_phase,       \* "idle", "open" (a Batch is alive), "closed" (dropped)
    drawn,             \* vertices accepted by the draw calls of this batch
    draw_sizes,        \* the sizes of the accepted draw calls of this batch
    draw_ends,         \* how many vertices were accepted when each call ended
    implicit_flushes,  \* flushes made inside Batch::draw during this batch
    last_op,           \* the last operation and the state it started from
    panicked,          \* a panic was raised
    \* ---- GlesContext / GlesState (context.rs:65-118) ----
    sampler_objects,   \* Extensions::sampler_objects
    texture_unit_limit,\* GlesState::texture_unit_limit
    texture_units,     \* GlesState::texture_units: unit -> [texture, sampler]
    active_texture_unit, \* GlesState::active_texture_unit
    bound_program,     \* GlesState::bound_program (0: None)
    real_cache,        \* Samplers::real_cache: states with a sampler object
    fallback_cache,    \* Samplers::fallback_cache: texture -> state or "none"
    sampler_attributes,\* ShaderState::sampler_attributes: cached unit per name
    live_textures,     \* handles of the GlesTexture objects alive
    \* ---- the driver ----
    gl_active_texture, \* the active texture unit
    gl_texture_units,  \* TEXTURE_2D binding of every unit (0: none)
    gl_program,        \* the program in use (0: none)
    gl_uniforms,       \* value of every sampler uniform of every program
    gl_samplers,       \* state of the sampler object bound to every unit
    gl_tex_params,     \* filter and wrap parameters of every texture
    \* ---- history ----
    last_draw,         \* the draw call just made, if the last step was one
    tex_panicked,      \* a panic was raised by the GLES2 layer
    \* ---- draw parameters: GlesState (context.rs:65-83) and the driver ----
    gles_state,        \* the mirror: GlesState's draw parameter fields
    gl_state,          \* the driver's value of every one of those fields
    flip_default_framebuffer, \* GlesSettings::flip_default_framebuffer
    blit_framebuffer,  \* Extensions::blit_framebuffer
    param_focus,       \* the parameter whose setter is called on its own
    param_op,          \* the last operation and, for that setter, its value
    param_calls,       \* the driver calls that call of the setter issued
    param_repeat,      \* whether the last set repeated the one before it
    \* ---- bindings: GlesState (context.rs:89-99) and the driver ----
    vertex_array_objects, \* Extensions::vertex_array_objects
    bound_frame_buffer,   \* GlesState::bound_frame_buffer (0: None)
    bound_render_buffer,  \* GlesState::bound_render_buffer (0: None)
    bound_buffers,        \* GlesState::bound_buffers: kind -> buffer (0: None)
    bound_vertex_array,   \* GlesState::bound_vertex_array (0: None)
    draw_descriptor_cache,\* GlesState::draw_descriptor_cache
    gl_bindings,          \* the driver's binding of every one of those targets
    buffers,              \* GlesBuffer objects alive: handle -> kind or "none"
    render_buffers,       \* handles of the GlesRenderBuffer objects alive
    frame_buffers,        \* handles of the managed GlesFrameBuffer objects alive
    descriptors,          \* GlesDrawDescriptor objects alive, by vertex array or id
    bind_op,              \* the last draw, clear or blit, if nothing came after
    \* ---- the screen flipper (fake_default_framebuffer.rs:154-162) ----
    flipper,              \* ScreenFlipper: size, framebuffer, depth_stencil
    flip_op,              \* the last operation of the flipper
    \* ---- QuadIndexBuffer (quad_index_buffer.rs:10-13, 55-68) ----
    quad_kind,            \* I::KIND of QuadIndexBuffer::new::<I>
    quad_size,            \* the size given to QuadIndexBuffer::new
    quad_state,           \* "none", "made", or "failed" (new panicked)
    quad_array,           \* the indices written to the buffer
    quad_draw,            \* the last draw with the buffer, if nothing came after
    \* ---- FrameBufferBlitter and the images it copies ----
    blit_fallback,        \* FrameBufferBlitter::fallback.is_some()
    blit_size,            \* the size of the framebuffers, read.0
    blit_images,          \* the image before the first blit and after each
    blit_sources,         \* the BlitSourceRect of each blit, in order
    \* ---- the build ----
    overflow_checks,      \* the build panics on integer overflow (else wraps)
    \* ---- the lengths and contents of buffers (buffer.rs) ----
    buffer_lens,          \* GlesBuffer::len of each buffer alive, in bytes
    buffer_bytes,         \* the bytes the driver holds for each buffer
    write_op,             \* the last write, if nothing came after
    \* ---- the pixels of a texture (texture.rs:74-79) ----
    tex_state,            \* "none" or "alive": GlesTexture::new has returned
    tex_format,           \* GlesTexture::format
    tex_gl_format,        \* the format and type of the last upload accepted
    tex_op,               \* the last new, write or write_rect
    \* ---- Animator and AnimationStorage (animation.rs:39, 130-135) ----
    store,                \* AnimationStorage: sequence key -> animations
    animator,             \* Animator: animation, next_sequence, elapsed, frame
    drawable,             \* the Drawable of the entity: [animation, frame]
    anim_shown,           \* the frame indices written to the Drawable, in order
    anim_deltas,          \* the Delta of the first updates since Animator::new
    anim_updates,         \* the number of updates since Animator::new
    anim_played,          \* play_now or play_deferred has named another sequence
    anim_op,              \* the last update of the Animator
    anim_age,             \* the time since the Drawable was last written
    anim_panicked,        \* an update has panicked
    \* ---- texture regions of sprites (sprite_renderer.rs:186-228) ----
    region_size,          \* the size of the texture, in texels
    region_pixels,        \* the region drawn, as a Rect<u32> in pixels
    texel_quads,          \* to_texel_quad of the region, per TextureRegion
    \* ---- PersistentSlotMap (persistent_slot_map.rs:36-39) ----
    slots,                \* PersistentSlotMap::slots: the values, by index
    key_to_slot,          \* PersistentSlotMap::key_to_slot: the keys present
    slot_returned,        \* the slots insert has returned, per key
    slot_latest,          \* the value of the last insert, per key (0: none)
    slot_op,              \* the last insert
    \* ---- SystemRunner and Resources (systems/mod.rs:15-25) ----
    systems,              \* SystemRunner::systems: what each system does to Exit
    exit_resource,        \* the Exit resource: None, Some(FALSE) or Some(TRUE)
    message,              \* a resource every system reads and appends to
    run_next,             \* 0: no run under way; else the index of the next system
    run_ran,              \* the systems run by the last run, in order
    run_seen,             \* the message each of them read
    run_exits,            \* whether Exit was set after each of them
    run_result,           \* what the last run returned: "none", "true", "false"
    \* ---- one setter at a time, statement by statement (context.rs:35-55, 423-503) ----
    step_state,           \* the mirror: GlesState fields by name
    step_gl,              \* the driver's value of what each field mirrors
    step_pc,              \* the statements left of the operation under way
    step_op,              \* the operation under way, or the last one
    \* ---- the texture units a context is made with (context.rs:140-193) ----
    unit_max,             \* the driver's MAX_TEXTURE_IMAGE_UNITS
    unit_flip,            \* GlesSettings::flip_default_frame_buffer
    unit_blit,            \* Extensions::blit_framebuffer
    unit_limit,           \* GlesState::texture_unit_limit
    unit_table,           \* GlesState::texture_units: index -> texture (0: None)
    unit_active,          \* GlesState::active_texture_unit
    unit_cached,          \* the unit a shader has cached for its sampler
    unit_blit_unit,       \* FallbackFramebufferBlitter::current_texture_unit
    unit_gl_active,       \* the driver's active texture unit
    unit_gl_bound,        \* the driver's TEXTURE_2D binding of every unit
    unit_live,            \* handles of the GlesTexture objects alive
    unit_ops,             \* the operations called since the context was made
    unit_op,              \* the last operation: indices used, units touched
    \* ---- the default framebuffer of a window (frame_buffer.rs:142-236) ----
    win_flip,             \* GlesSettings::flip_default_framebuffer
    win_surface,          \* the size the backend reports for the window
    win_cached,           \* the size cached for the frame (None: not asked yet)
    win_fake,             \* the size of the fake framebuffer (None: not made)
    win_handles,          \* the default-framebuffer objects handed out
    win_swaps,            \* the frames presented so far
    win_queries,          \* times the backend was asked the size this frame
    win_frame_size,       \* the size the first query of the frame returned
    win_asked,            \* the size the last operation was told, if it asked
    win_op,               \* the last operation and the framebuffer it used
    \* ---- the sampler objects of a context (samplers.rs:20-69) ----
    so_units,             \* TextureUnit::sampler of every unit below the limit
    so_cache,             \* Samplers::real_cache: state -> sampler (0: no entry)
    so_gl_alive,          \* the sampler objects the driver holds
    so_gl_bound,          \* the driver's sampler binding of every unit (0: none)
    so_made,              \* state -> the samplers create_sampler returned for it
    so_deleted,           \* sampler -> the delete_sampler calls that named it
    so_binds,             \* the bind_sampler calls so far
    so_dropped,           \* the context has been dropped
    \* ---- the tokens of fallback draw descriptors (draw_descriptor.rs) ----
    tk_cache,             \* DrawDescriptorCache: counter and current
    tk_made,              \* the descriptors made, in order: id and buffers
    tk_alive,             \* positions in tk_made of the descriptors alive
    tk_bound,             \* GlesState::bound_buffers
    tk_op,                \* the last operation and the driver calls it made
    \* ---- the uniforms of shader programs (frame_buffer.rs:549-612) ----
    un_cache,             \* ShaderState::uniforms_cache of every shader
    un_gl,                \* the driver's value of every uniform of every program
    un_last,              \* the layout and bytes of each shader's last draw
    un_panicked,          \* an assertion of bind_uniforms has failed
    un_op,                \* the last draw: what it uploaded and what it skipped
    \* ---- one blit on both paths of FrameBufferBlitter::blit ----
    bp_size,              \* the size of the framebuffer read and written
    bp_destination,       \* the rectangle written
    bp_source,            \* the BlitSourceRect of the blit, None before it
    bp_native,            \* pixel read for each pixel written, native path
    bp_quad               \* pixel read for each pixel written, fallback path

batchVars == <<buffer_size, buffer_count, indices, unflushed, vec_capacity,
               current_buffer, gpu_draws, batch_phase, drawn, draw_sizes,
               draw_ends, implicit_flushes, last_op, panicked>>

texVars == <<sampler_objects, texture_unit_limit, texture_units,
             active_texture_unit, bound_program, real_cache, fallback_cache,
             sampler_attributes, live_textures, gl_active_texture,
             gl_texture_units, gl_program, gl_uniforms, gl_samplers,
             gl_tex_params, last_draw, tex_panicked>>

paramVars == <<gles_state, gl_state, flip_default_framebuffer,
               blit_framebuffer, param_focus, param_op, param_calls,
               param_repeat>>

bindVars == <<vertex_array_objects, bound_frame_buffer, bound_render_buffer,
              bound_buffers, bound_vertex_array, draw_descriptor_cache,
              gl_bindings, buffers, render_buffers, frame_buffers,
              descriptors, bind_op>>

flipVars == <<flipper, flip_op>>

quadVars == <<quad_kind, quad_size, quad_state, quad_array, quad_draw>>

blitImageVars == <<blit_fallback, blit_size, blit_images, blit_sources>>

buildVars == <<overflow_checks>>

byteBufferVars == <<buffer_lens, buffer_bytes, write_op>>

texDataVars == <<tex_state, tex_format, tex_gl_format, tex_op>>

animVars == <<store, animator, drawable, anim_shown, anim_deltas,
              anim_updates, anim_played, anim_op, anim_age, anim_panicked>>

texelVars == <<region_size, region_pixels, texel_quads>>

slotMapVars == <<slots, key_to_slot, slot_returned, slot_latest, slot_op>>

runnerVars == <<systems, exit_resource, message, run_next, run_ran, run_seen,
                run_exits, run_result>>

stepVars == <<step_state, step_gl, step_pc, step_op>>

unitVars == <<unit_max, unit_flip, unit_blit, unit_limit, unit_table,
              unit_active, unit_cached, unit_blit_unit, unit_gl_active,
              unit_gl_bound, unit_live, unit_ops, unit_op>>

windowVars == <<win_flip, win_surface, win_cached, win_fake, win_handles,
                win_swaps, win_queries, win_frame_size, win_asked, win_op>>

samplersVars == <<so_units, so_cache, so_gl_alive, so_gl_bound, so_made,
                  so_deleted, so_binds, so_dropped>>

tokenVars == <<tk_cache, tk_made, tk_alive, tk_bound, tk_op>>

uniformVars == <<un_cache, un_gl, un_last, un_panicked, un_op>>

pathVars == <<bp_size, bp_destination, bp_source, bp_native, bp_quad>>

vars == <<batchVars, texVars, paramVars, bindVars, flipVars, buildVars,
          quadVars, blitImageVars, byteBufferVars, texDataVars, animVars,
          texelVars, slotMapVars, runnerVars, stepVars, unitVars, windowVars,
          samplersVars, tokenVars, uniformVars, pathVars>>

\* texVars without the program, which the operations on bindings change too
texUnitVars == <<sampler_objects, texture_unit_limit, texture_units,
                 active_texture_unit, real_cache, fallback_cache,
                 sampler_attributes, live_textures, gl_active_texture,
                 gl_texture_units, gl_uniforms, gl_samplers, gl_tex_params,
                 last_draw, tex_panicked>>

\* what the operations on one group of variables leave alone
otherThanBatch ==
    <<texVars, paramVars, bindVars, flipVars, buildVars, quadVars,
      blitImageVars, byteBufferVars, texDataVars, animVars, texelVars,
      slotMapVars, runnerVars, stepVars, unitVars, windowVars, samplersVars,
      tokenVars, uniformVars, pathVars>>

otherThanTex ==
    <<batchVars, paramVars, bindVars, flipVars, buildVars, quadVars,
      blitImageVars, byteBufferVars, texDataVars, animVars, texelVars,
      slotMapVars, runnerVars, stepVars, unitVars, windowVars, samplersVars,
      tokenVars, uniformVars, pathVars>>

otherThanParam ==
    <<batchVars, texVars, bindVars, flipVars, buildVars, quadVars,
      blitImageVars, byteBufferVars, texDataVars, animVars, texelVars,
      slotMapVars, runnerVars, stepVars, unitVars, windowVars, samplersVars,
      tokenVars, uniformVars, pathVars>>

otherThanBind ==
    <<batchVars, texUnitVars, paramVars, flipVars, buildVars, quadVars,
      blitImageVars, byteBufferVars, texDataVars, animVars, texelVars,
      slotMapVars, runnerVars, stepVars, unitVars, windowVars, samplersVars,
      tokenVars, uniformVars, pathVars>>

otherThanFlip ==
    <<batchVars, texUnitVars, paramVars, buildVars, quadVars, blitImageVars,
      byteBufferVars, texDataVars, animVars, texelVars, slotMapVars,
      runnerVars, stepVars, unitVars, windowVars, samplersVars, tokenVars,
      uniformVars, pathVars>>

otherThanQuad ==
    <<batchVars, texVars, paramVars, bindVars, flipVars, buildVars,
      blitImageVars, byteBufferVars, texDataVars, animVars, texelVars,
      slotMapVars, runnerVars, stepVars, unitVars, windowVars, samplersVars,
      tokenVars, uniformVars, pathVars>>

otherThanBlitImage ==
    <<batchVars, texVars, paramVars, bindVars, flipVars, buildVars, quadVars,
      byteBufferVars, texDataVars, animVars, texelVars, slotMapVars,
      runnerVars, stepVars, unitVars, windowVars, samplersVars, tokenVars,
      uniformVars, pathVars>>

otherThanByteBuffer ==
    <<batchVars, texUnitVars, paramVars, flipVars, buildVars, quadVars,
      blitImageVars, texDataVars, animVars, texelVars, slotMapVars,
      runnerVars, stepVars, unitVars, windowVars, samplersVars, tokenVars,
      uniformVars, pathVars>>

otherThanTexData ==
    <<batchVars, texVars, paramVars, bindVars, flipVars, buildVars, quadVars,
      blitImageVars, byteBufferVars, animVars, texelVars, slotMapVars,
      runnerVars, stepVars, unitVars, windowVars, samplersVars, tokenVars,
      uniformVars, pathVars>>

otherThanAnim ==
    <<batchVars, texVars, paramVars, bindVars, flipVars, buildVars, quadVars,
      blitImageVars, byteBufferVars, texDataVars, texelVars, slotMapVars,
      runnerVars, stepVars, unitVars, windowVars, samplersVars, tokenVars,
      uniformVars, pathVars>>

otherThanTexel ==
    <<batchVars, texVars, paramVars, bindVars, flipVars, buildVars, quadVars,
      blitImageVars, byteBufferVars, texDataVars, animVars, slotMapVars,
      runnerVars, stepVars, unitVars, windowVars, samplersVars, tokenVars,
      uniformVars, pathVars>>

otherThanSlotMap ==
    <<batchVars, texVars, paramVars, bindVars, flipVars, buildVars, quadVars,
      blitImageVars, byteBufferVars, texDataVars, animVars, texelVars,
      runnerVars, stepVars, unitVars, windowVars, samplersVars, tokenVars,
      uniformVars, pathVars>>

otherThanRunner ==
    <<batchVars, texVars, paramVars, bindVars, flipVars, buildVars, quadVars,
      blitImageVars, byteBufferVars, texDataVars, animVars, texelVars,
      slotMapVars, stepVars, unitVars, windowVars, samplersVars, tokenVars,
      uniformVars, pathVars>>

otherThanStep ==
    <<batchVars, texVars, paramVars, bindVars, flipVars, buildVars, quadVars,
      blitImageVars, byteBufferVars, texDataVars, animVars, texelVars,
      slotMapVars, runnerVars, unitVars, windowVars, samplersVars, tokenVars,
      uniformVars, pathVars>>

otherThanUnit ==
    <<batchVars, texVars, paramVars, bindVars, flipVars, buildVars, quadVars,
      blitImageVars, byteBufferVars, texDataVars, animVars, texelVars,
      slotMapVars, runnerVars, stepVars, windowVars, samplersVars, tokenVars,
      uniformVars, pathVars>>

otherThanWindow ==
    <<batchVars, texVars, paramVars, bindVars, flipVars, buildVars, quadVars,
      blitImageVars, byteBufferVars, texDataVars, animVars, texelVars,
      slotMapVars, runnerVars, stepVars, unitVars, samplersVars, tokenVars,
      uniformVars, pathVars>>

otherThanSamplers ==
    <<batchVars, texVars, paramVars, bindVars, flipVars, buildVars, quadVars,
      blitImageVars, byteBufferVars, texDataVars, animVars, texelVars,
      slotMapVars, runnerVars, stepVars, unitVars, windowVars, tokenVars,
      uniformVars, pathVars>>

otherThanToken ==
    <<batchVars, texVars, paramVars, bindVars, flipVars, buildVars, quadVars,
      blitImageVars, byteBufferVars, texDataVars, animVars, texelVars,
      slotMapVars, runnerVars, stepVars, unitVars, windowVars, samplersVars,
      uniformVars, pathVars>>

otherThanUniform ==
    <<batchVars, texVars, paramVars, bindVars, flipVars, buildVars, quadVars,
      blitImageVars, byteBufferVars, texDataVars, animVars, texelVars,
      slotMapVars, runnerVars, stepVars, unitVars, windowVars, samplersVars,
      tokenVars, pathVars>>

otherThanPath ==
    <<batchVars, texVars, paramVars, bindVars, flipVars, buildVars, quadVars,
      blitImageVars, byteBufferVars, texDataVars, animVars, texelVars,
      slotMapVars, runnerVars, stepVars, unitVars, windowVars, samplersVars,
      tokenVars, uniformVars>>

(***************************************************************************)
(* Helpers.                                                                *)
(***************************************************************************)
Max(a, b) == IF a >= b THEN a ELSE b

RECURSIVE Flatten(_)
Flatten(ss) == IF ss = <<>> THEN <<>> ELSE Head(ss) \o Flatten(Tail(ss))

CeilDiv(a, b) == (a + b - 1) \div b

Range(s) == {s[i] : i \in DOMAIN s}

(***************************************************************************)
(* batch_renderer.rs                                                       *)
(***************************************************************************)

\* BatchIndices::indices: the index count of a physical draw of v vertices.
BatchIndicesLen(kind, v) == IF kind = "Quad" THEN (v \div 4) * 6 ELSE v

\* Vec::push: the capacity after pushing onto a vector of length len.
\* (A full vector reallocates with amortised growth; Batch::draw never
\* reaches that branch.)
VecPushCapacity(cap, len) ==
    IF len < cap THEN cap ELSE Max(Max(cap * 2, len + 1), 4)

\* The record of BatchRenderer fields and HAL effects the operations act on.
BatchSelf ==
    [unflushed |-> unflushed, vec_capacity |-> vec_capacity,
     current_buffer |-> current_buffer, gpu_draws |-> gpu_draws,
     panicked |-> panicked]

\* Buffer::write / GlesBuffer::write: the bounds assertion of a write of
\* len elements at element offset `offset` into a buffer of buffer_size.
BufferWriteFits(offset, len) == offset + len <= buffer_size

\* Batch::flush
MutFlushKeepsSlot(s) ==
    IF s.unflushed = <<>> THEN s
    ELSE [s EXCEPT
            !.gpu_draws = Append(@, [slot |-> s.current_buffer,
                                     offset |-> 0,
                                     data |-> s.unflushed,
                                     len |-> BatchIndicesLen(indices, Len(s.unflushed))]),
            !.unflushed = <<>>]

flush(s) ==
    IF s.unflushed = <<>> THEN s
    ELSE IF ~BufferWriteFits(0, Len(s.unflushed))
         THEN [s EXCEPT !.panicked = TRUE]
         ELSE [s EXCEPT
                 !.gpu_draws = Append(@, [slot |-> s.current_buffer,
                                          offset |-> 0,
                                          data |-> s.unflushed,
                                          len |-> BatchIndicesLen(indices, Len(s.unflushed))]),
                 !.unflushed = <<>>,
                 !.current_buffer = (s.current_buffer + 1) % buffer_count]

\* Batch::draw, line 78: assert!(vertices.len() <= unflushed.capacity())
MutDrawAssertsNothing(n, s) == TRUE

DrawAssertion(n, s) == n <= s.vec_capacity

\* Batch::draw, line 81: the vertices do not fit the remaining capacity
MutNeedsFlushLate(n, s) == n > s.vec_capacity - Len(s.unflushed) + 1

MutNeedsFlushEager(n, s) == n >= s.vec_capacity - Len(s.unflushed)

NeedsFlush(n, s) == n > s.vec_capacity - Len(s.unflushed)

\* Batch::draw, lines 85-87: push every vertex
RECURSIVE PushAll(_, _)
MutPushAllButLast(s, vs) ==
    IF Len(vs) <= 1 THEN s
    ELSE PushAll([s EXCEPT !.unflushed = Append(@, Head(vs))], Tail(vs))

PushAll(s, vs) ==
    IF vs = <<>> THEN s
    ELSE PushAll([s EXCEPT
                    !.vec_capacity = VecPushCapacity(@, Len(s.unflushed)),
                    !.unflushed = Append(@, Head(vs))],
                 Tail(vs))

\* Batch::draw filling the staging vector to its capacity before it
\* flushes, so that a slice is cut in two
MutDrawSplits(s, vs) ==
    IF ~DrawAssertion(Len(vs), s) THEN [s EXCEPT !.panicked = TRUE]
    ELSE LET room == s.vec_capacity - Len(s.unflushed)
         IN  IF Len(vs) <= room THEN PushAll(s, vs)
             ELSE LET f == flush(PushAll(s, SubSeq(vs, 1, room)))
                  IN  IF f.panicked THEN f
                      ELSE PushAll(f, SubSeq(vs, room + 1, Len(vs)))

\* Batch::draw
draw(s, vs) ==
    IF ~DrawAssertion(Len(vs), s) THEN [s EXCEPT !.panicked = TRUE]
    ELSE LET f == IF NeedsFlush(Len(vs), s) THEN flush(s) ELSE s
         IN  IF f.panicked THEN f ELSE PushAll(f, vs)

\* Drop for Batch
MutDropForgetsFlush(s) == s

drop(s) == flush(s)

\* The vertices of the next draw call: fresh ids, so that loss, duplication
\* and reordering are all visible.
NewVertices(n) == [i \in 1..n |-> Len(drawn) + i]

LastOp(kind, n) ==
    [kind |-> kind, n |-> n, staged_before |-> unflushed,
     draws_before |-> gpu_draws, slot_before |-> current_buffer]

\* BatchRenderer::new: (buffer_size, buffer_count) and the index mode are the
\* caller's; the staging vector starts empty with the requested capacity.
BatchInit ==
    /\ buffer_size \in 0..MaxCapacity
    /\ buffer_count \in 1..MaxRing
    /\ indices \in {"Quad", "Primitive"}
    /\ unflushed = <<>>
    /\ vec_capacity = buffer_size
    /\ current_buffer = 0
    /\ gpu_draws = <<>>
    /\ batch_phase = "idle"
    /\ drawn = <<>>
    /\ draw_sizes = {}
    /\ draw_ends = {}
    /\ implicit_flushes = 0
    /\ last_op = [kind |-> "new", n |-> 0, staged_before |-> <<>>,
                  draws_before |-> <<>>, slot_before |-> 0]
    /\ panicked = FALSE

\* the batch group of a specification that does not exercise it
BatchIdle ==
    /\ buffer_size = 0
    /\ buffer_count = 1
    /\ indices = "Quad"
    /\ unflushed = <<>>
    /\ vec_capacity = 0
    /\ current_buffer = 0
    /\ gpu_draws = <<>>
    /\ batch_phase = "idle"
    /\ drawn = <<>>
    /\ draw_sizes = {}
    /\ draw_ends = {}
    /\ implicit_flushes = 0
    /\ last_op = [kind |-> "new", n |-> 0, staged_before |-> <<>>,
                  draws_before |-> <<>>, slot_before |-> 0]
    /\ panicked = FALSE

\* BatchRenderer::start_batch (and SpriteRenderer::start_batch, which wraps it)
StartBatch ==
    /\ ~panicked
    /\ batch_phase \in {"idle", "closed"}
    /\ batch_phase' = "open"
    /\ gpu_draws' = <<>>
    /\ drawn' = <<>>
    /\ draw_sizes' = {}
    /\ draw_ends' = {}
    /\ implicit_flushes' = 0
    /\ last_op' = LastOp("start_batch", 0)
    /\ UNCHANGED <<buffer_size, buffer_count, indices, unflushed, vec_capacity,
                   current_buffer, panicked>>
    /\ UNCHANGED otherThanBatch

\* Batch::draw(vertices) with vertices.len() = n
BatchDraw(n) ==
    /\ ~panicked
    /\ batch_phase = "open"
    /\ Len(drawn) + n <= MaxTotal
    /\ LET vs == NewVertices(n)
           r  == draw(BatchSelf, vs)
           accepted == DrawAssertion(n, BatchSelf)
       IN  /\ unflushed' = r.unflushed
           /\ vec_capacity' = r.vec_capacity
           /\ current_buffer' = r.current_buffer
           /\ gpu_draws' = r.gpu_draws
           /\ panicked' = r.panicked
           /\ drawn' = IF accepted THEN drawn \o vs ELSE drawn
           /\ draw_sizes' = IF accepted THEN draw_sizes \cup {n} ELSE draw_sizes
           /\ draw_ends' = IF accepted THEN draw_ends \cup {Len(drawn) + n}
                           ELSE draw_ends
           /\ implicit_flushes' =
                 implicit_flushes + (Len(r.gpu_draws) - Len(gpu_draws))
    /\ last_op' = LastOp("draw", n)
    /\ UNCHANGED <<buffer_size, buffer_count, indices, batch_phase>>
    /\ UNCHANGED otherThanBatch

\* The Batch goes out of scope: at the end of its scope, or while a panic
\* raised by Batch::draw unwinds through it.
BatchDrop ==
    /\ batch_phase = "open"
    /\ LET r == drop(BatchSelf)
       IN  /\ unflushed' = r.unflushed
           /\ vec_capacity' = r.vec_capacity
           /\ current_buffer' = r.current_buffer
           /\ gpu_draws' = r.gpu_draws
           /\ panicked' = r.panicked
    /\ batch_phase' = "closed"
    /\ last_op' = LastOp("drop", 0)
    /\ UNCHANGED <<buffer_size, buffer_count, indices, drawn, draw_sizes,
                   draw_ends, implicit_flushes>>
    /\ UNCHANGED otherThanBatch

BatchNext ==
    \/ StartBatch
    \/ \E n \in 0..MaxDrawLen : BatchDraw(n)
    \/ BatchDrop

(***************************************************************************)
(* Texture units, samplers and sampler uniforms of the GLES2 backend.      *)
(***************************************************************************)
Textures == 1..MaxTextures

\* SamplerState values: SamplerState::default() and SamplerState::nearest()
SamplerStates == {"default", "nearest"}

\* Two shader programs; the sampler uniforms their sources declare.
Shaders == {1, 2}

ShaderSamplers(s) == IF s = 1 THEN {"a", "b"} ELSE {"a"}

\* the names a draw call may pass; shader 2 does not declare "b"
SamplerNames == <<"a", "b">>

\* GlesContext::new: the limits the context may compute from the driver's
\* MAX_TEXTURE_IMAGE_UNITS
TextureUnitLimits == {1, 2}

Units == 0..(texture_unit_limit - 1)

\* the filter and wrap parameters of a texture the driver has just made:
\* REPEAT, NEAREST_MIPMAP_LINEAR, LINEAR, which no SamplerState above maps
\* to (SamplerState::default() is REPEAT, LINEAR_MIPMAP_NEAREST, LINEAR)
GlInitialTexParams == "initial"

\* TextureUnit::default()
DefaultTextureUnit == [texture |-> 0, sampler |-> "default"]

\* The state the operations below thread through: the mirror, the driver
\* and, during bind_textures, the locals used_units and no_free_units.
GlesCtx ==
    [texture_units       |-> texture_units,
     active_texture_unit |-> active_texture_unit,
     bound_program       |-> bound_program,
     real_cache          |-> real_cache,
     fallback_cache      |-> fallback_cache,
     sampler_attributes  |-> sampler_attributes,
     gl_active_texture   |-> gl_active_texture,
     gl_texture_units    |-> gl_texture_units,
     gl_program          |-> gl_program,
     gl_uniforms         |-> gl_uniforms,
     gl_samplers         |-> gl_samplers,
     gl_tex_params       |-> gl_tex_params,
     used_units          |-> {},
     no_free_units       |-> FALSE,
     claimed_evicted     |-> FALSE,
     claimed_resampled   |-> FALSE,
     panicked            |-> FALSE]

\* glBindTexture(TEXTURE_2D, t): acts on the driver's active unit
GlBindTexture(c, t) ==
    [c EXCEPT !.gl_texture_units[c.gl_active_texture] = t]

\* glTexParameteri x4: acts on the texture bound to the driver's active unit
GlTexParameters(c, state) ==
    LET t == c.gl_texture_units[c.gl_active_texture]
    IN  IF t = 0 THEN c ELSE [c EXCEPT !.gl_tex_params[t] = state]

\* glUniform1i(location of name, v): acts on the program in use
GlUniform1i(c, name, v) ==
    IF c.gl_program = 0 \/ name \notin ShaderSamplers(c.gl_program) THEN c
    ELSE [c EXCEPT !.gl_uniforms[c.gl_program][name] = v]

\* glDeleteTexture(t): the driver reverts every binding of t to none
GlDeleteTexture(c, t) ==
    [c EXCEPT !.gl_texture_units =
                  [u \in DOMAIN @ |-> IF @[u] = t THEN 0 ELSE @[u]],
              !.gl_tex_params[t] = GlInitialTexParams]

\* GlesContextRef::use_program
use_program(c, program) ==
    IF c.bound_program # program
    THEN [c EXCEPT !.gl_program = program, !.bound_program = program]
    ELSE c

\* GlesContextRef::activate_texture_unit
activate_texture_unit(c, unit) ==
    IF c.active_texture_unit # unit
    THEN [c EXCEPT !.gl_active_texture = unit, !.active_texture_unit = unit]
    ELSE c

\* (0..texture_unit_limit).find(..): the first of the units found, or -1
FirstUnit(found) ==
    IF found = {} THEN -1
    ELSE CHOOSE i \in found : \A j \in found : i <= j

\* GlesContextRef::activate_texture
activate_texture(c, texture) ==
    LET bound_unit ==
            FirstUnit({i \in Units : c.texture_units[i].texture = texture})
        empty_unit ==
            FirstUnit({i \in Units : c.texture_units[i].texture = 0})
    IN  IF bound_unit # -1 THEN activate_texture_unit(c, bound_unit)
        ELSE LET a == activate_texture_unit(
                          c, IF empty_unit = -1 THEN 0 ELSE empty_unit)
                 b == GlBindTexture(a, texture)
             IN  [b EXCEPT
                    !.texture_units[b.active_texture_unit].texture = texture]

\* GlesContextRef::bind_sampler_object
bind_sampler_object(c, unit, state) ==
    IF c.texture_units[unit].sampler = state THEN c
    ELSE [c EXCEPT !.real_cache = @ \cup {state},
                   !.gl_samplers[unit] = state,
                   !.texture_units[unit].sampler = state]

\* GlesContextRef::bind_sampling_data
bind_sampling_data(c, unit, state) ==
    LET texture == c.texture_units[unit].texture
    IN  IF texture = 0 THEN c
        ELSE IF c.fallback_cache[texture] = state THEN c
        ELSE LET a == GlTexParameters(activate_texture_unit(c, unit), state)
             IN  [a EXCEPT !.fallback_cache[texture] = state,
                           !.texture_units[unit].sampler = state]

\* GlesContextRef::bind_sampler
bind_sampler(c, unit, state) ==
    IF sampler_objects THEN bind_sampler_object(c, unit, state)
    ELSE bind_sampling_data(c, unit, state)

MutClaimNothing(c, unit) == c

\* used_units.set(unit, true)
ClaimUnit(c, unit) == [c EXCEPT !.used_units = @ \cup {unit}]

MutAnyUnit(c, i) == TRUE

\* the candidates of the search for a unit not used by this draw call
UnitNotUsed(c, i) == i \notin c.used_units

\* bind_texture (frame_buffer.rs), after the early returns: take the first
\* empty unit, or else the first unit this draw call has not used, and bind
\* texture and sampler there
bind_texture_to_unit(c, shader, binding) ==
    LET free_unit ==
            IF c.no_free_units THEN -1
            ELSE FirstUnit({i \in Units : c.texture_units[i].texture = 0})
        c1   == IF ~c.no_free_units /\ free_unit = -1
                THEN [c EXCEPT !.no_free_units = TRUE] ELSE c
        unit == IF free_unit # -1 THEN free_unit
                ELSE FirstUnit({i \in Units : UnitNotUsed(c, i)})
    IN  IF unit = -1 THEN [c1 EXCEPT !.panicked = TRUE]
        ELSE LET a == GlBindTexture(activate_texture_unit(c1, unit),
                                    binding.texture)
                 b == [a EXCEPT
                         !.texture_units[unit].texture = binding.texture,
                         !.claimed_evicted = @ \/ unit \in c.used_units,
                         !.claimed_resampled = @ \/ unit \in c.used_units]
                 d == GlUniform1i(bind_sampler(b, unit, binding.sampler),
                                  binding.name, unit)
             IN  ClaimUnit(
                   [d EXCEPT !.sampler_attributes[shader][binding.name] = unit],
                   unit)

\* bind_texture (frame_buffer.rs)
bind_texture(c, shader, binding) ==
    IF binding.name \notin ShaderSamplers(shader) THEN c
    ELSE LET cached_unit == c.sampler_attributes[shader][binding.name]
             unit_data   == c.texture_units[cached_unit]
             can_reuse   == ~sampler_objects \/ cached_unit \notin c.used_units
         IN  IF unit_data.texture = binding.texture
                /\ unit_data.sampler = binding.sampler
             THEN ClaimUnit(c, cached_unit)
             ELSE IF unit_data.texture = binding.texture /\ can_reuse
             THEN bind_sampler(
                    ClaimUnit([c EXCEPT !.claimed_resampled =
                                          @ \/ cached_unit \in c.used_units],
                              cached_unit),
                    cached_unit, binding.sampler)
             ELSE bind_texture_to_unit(c, shader, binding)

\* bind_textures (frame_buffer.rs): the loop over the sampler attributes; a
\* panic ends it
RECURSIVE bind_textures(_, _, _)
bind_textures(c, shader, textures) ==
    IF textures = <<>> \/ c.panicked THEN c
    ELSE bind_textures(bind_texture(c, shader, Head(textures)), shader,
                       Tail(textures))

\* GlesFrameBuffer::draw, as far as textures and programs go: use_program,
\* then bind_textures; bind_uniforms and draw_impl follow unless this panicked
draw_textures(c, shader, textures) ==
    bind_textures(use_program(c, shader), shader, textures)

\* GlesTexture::drop
drop_texture(c, t) ==
    LET holds == {i \in Units : c.texture_units[i].texture = t}
        u == CHOOSE i \in holds : \A j \in holds : j <= i
        a == [c EXCEPT
                !.texture_units =
                    [i \in Units |->
                        IF i \in holds
                        THEN [texture |-> 0,
                              sampler |-> c.texture_units[i].sampler]
                        ELSE c.texture_units[i]],
                !.gl_texture_units =
                    [i \in Units |->
                        IF i \in holds THEN 0 ELSE c.gl_texture_units[i]],
                !.gl_active_texture = IF holds = {} THEN @ ELSE u,
                !.active_texture_unit = IF holds = {} THEN @ ELSE u,
                !.fallback_cache[t] = "none"]
    IN  GlDeleteTexture(a, t)

\* strictly increasing index sequences into SamplerNames
NameOrders ==
    {s \in UNION {[1..k -> DOMAIN SamplerNames] : k \in 0..Len(SamplerNames)} :
        \A i \in DOMAIN s : \A j \in DOMAIN s : i < j => s[i] < s[j]}

\* a draw call passes no more sampler attributes than its shader declares
\* samplers; a name it passes need not be one of them
PassableNames(shader) ==
    {o \in NameOrders : Len(o) <= Cardinality(ShaderSamplers(shader))}

\* the textures a sampler attribute list binds under names the shader declares
RequestedTextures(shader, textures) ==
    {textures[i].texture :
        i \in {j \in DOMAIN textures : textures[j].name \in ShaderSamplers(shader)}}

\* in state c every texture of the list, passed under a name the shader
\* declares, is bound in the driver to a unit below the limit and the
\* driver's value of the shader's sampler uniform of that name is that unit
BindingsApplied(c, shader, textures) ==
    \A i \in DOMAIN textures :
        textures[i].name \in ShaderSamplers(shader) =>
            LET unit == c.gl_uniforms[shader][textures[i].name]
            IN  unit \in Units /\ c.gl_texture_units[unit] = textures[i].texture

\* the entries of the list under names the shader declares whose texture
\* the list passes with one sampler state only
SingleStateEntries(shader, textures) ==
    {i \in DOMAIN textures :
        /\ textures[i].name \in ShaderSamplers(shader)
        /\ \A j \in DOMAIN textures :
             (textures[j].name \in ShaderSamplers(shader)
                /\ textures[j].texture = textures[i].texture)
               => textures[j].sampler = textures[i].sampler}

\* in state c the driver's filter and wrap parameters of every such texture
\* are the sampler state the list passes with it
SamplingApplied(c, shader, textures) ==
    \A i \in SingleStateEntries(shader, textures) :
        c.gl_tex_params[textures[i].texture] = textures[i].sampler

\* in state c one of those textures has the parameters of another sampler
\* state, which bind_sampling_data has set and recorded for it
SamplingStale(c, shader, textures) ==
    \E i \in SingleStateEntries(shader, textures) :
        /\ c.gl_tex_params[textures[i].texture] # textures[i].sampler
        /\ c.gl_tex_params[textures[i].texture] =
             c.fallback_cache[textures[i].texture]

\* the list passes one texture under both names of the shader, with two
\* sampler states
SameTextureTwice(shader, textures) ==
    /\ ShaderSamplers(shader) = {"a", "b"}
    /\ Len(textures) = 2
    /\ textures[1].texture = textures[2].texture
    /\ textures[1].sampler # textures[2].sampler

\* what the driver samples with on a unit: the state of the sampler object
\* bound to the unit, and the parameters of the texture bound there when
\* the unit has no sampler object
GlSampling(c, unit) ==
    IF c.gl_samplers[unit] # "none" THEN c.gl_samplers[unit]
    ELSE IF c.gl_texture_units[unit] = 0 THEN "none"
    ELSE c.gl_tex_params[c.gl_texture_units[unit]]

\* in state c the two sampler uniforms of the shader hold two units
UnitsSplit(c, shader) ==
    /\ c.gl_uniforms[shader]["a"] \in Units
    /\ c.gl_uniforms[shader]["b"] \in Units
    /\ c.gl_uniforms[shader]["a"] # c.gl_uniforms[shader]["b"]

\* in state c the unit each name's uniform holds has the texture of that
\* name, and the mirror records for it the sampler state of that name
MirrorSamplersApplied(c, shader, textures) ==
    \A i \in DOMAIN textures :
        LET unit == c.gl_uniforms[shader][textures[i].name]
        IN  /\ unit \in Units
            /\ c.gl_texture_units[unit] = textures[i].texture
            /\ c.texture_units[unit].sampler = textures[i].sampler

\* in state c the driver samples each name's unit with the sampler state
\* of that name
DriverSamplersApplied(c, shader, textures) ==
    \A i \in DOMAIN textures :
        LET unit == c.gl_uniforms[shader][textures[i].name]
        IN  unit \in Units /\ GlSampling(c, unit) = textures[i].sampler

\* the sampler attribute list of a draw call: distinct names, each with a
\* texture and a sampler state
SamplerAttributeList(o, ts, ss) ==
    [i \in DOMAIN o |->
        [name |-> SamplerNames[o[i]], texture |-> ts[i], sampler |-> ss[i]]]

\* what is recorded of a draw call that has run bind_textures and has not
\* yet reached draw_impl: how many distinct textures it passed under
\* declared names, whether it panicked, whether it rebound a unit it had
\* already used, whether the bindings it asked for are in place
NoDraw == [kind |-> "none", distinct |-> 0, panicked |-> FALSE,
           claimed_evicted |-> FALSE, applied |-> FALSE, sampled |-> FALSE,
           stale |-> FALSE, twice |-> FALSE, split |-> FALSE,
           mirror_samplers |-> FALSE, driver_samplers |-> FALSE,
           claimed_resampled |-> FALSE]

\* no draw call is in progress and no panic has ended the program
TexIdling == ~tex_panicked /\ last_draw.kind = "none"

\* GlesContext::new and GlesShader::new for every shader: an empty mirror
\* over a driver in its initial state
TexInit ==
    /\ sampler_objects \in BOOLEAN
    /\ texture_unit_limit \in TextureUnitLimits
    /\ texture_units = [u \in Units |-> DefaultTextureUnit]
    /\ active_texture_unit = 0
    /\ bound_program = 0
    /\ real_cache = {}
    /\ fallback_cache = [t \in Textures |-> "none"]
    /\ sampler_attributes = [s \in Shaders |-> [n \in ShaderSamplers(s) |-> 0]]
    /\ live_textures = {}
    /\ gl_active_texture = 0
    /\ gl_texture_units = [u \in Units |-> 0]
    /\ gl_program = 0
    /\ gl_uniforms = [s \in Shaders |-> [n \in ShaderSamplers(s) |-> 0]]
    /\ gl_samplers = [u \in Units |-> "none"]
    /\ gl_tex_params = [t \in Textures |-> GlInitialTexParams]
    /\ last_draw = NoDraw
    /\ tex_panicked = FALSE

\* the texture group of a specification that does not exercise it
TexUnitsIdle ==
    /\ sampler_objects = FALSE
    /\ texture_unit_limit = 1
    /\ texture_units = [u \in Units |-> DefaultTextureUnit]
    /\ active_texture_unit = 0
    /\ real_cache = {}
    /\ fallback_cache = [t \in Textures |-> "none"]
    /\ sampler_attributes = [s \in Shaders |-> [n \in ShaderSamplers(s) |-> 0]]
    /\ live_textures = {}
    /\ gl_active_texture = 0
    /\ gl_texture_units = [u \in Units |-> 0]
    /\ gl_uniforms = [s \in Shaders |-> [n \in ShaderSamplers(s) |-> 0]]
    /\ gl_samplers = [u \in Units |-> "none"]
    /\ gl_tex_params = [t \in Textures |-> GlInitialTexParams]
    /\ last_draw = NoDraw
    /\ tex_panicked = FALSE

TexIdle == TexUnitsIdle /\ bound_program = 0 /\ gl_program = 0

\* the mirror and the driver after an operation that ended in state c
TexCommit(c) ==
    /\ texture_units' = c.texture_units
    /\ active_texture_unit' = c.active_texture_unit
    /\ bound_program' = c.bound_program
    /\ real_cache' = c.real_cache
    /\ fallback_cache' = c.fallback_cache
    /\ sampler_attributes' = c.sampler_attributes
    /\ gl_active_texture' = c.gl_active_texture
    /\ gl_texture_units' = c.gl_texture_units
    /\ gl_program' = c.gl_program
    /\ gl_uniforms' = c.gl_uniforms
    /\ gl_samplers' = c.gl_samplers
    /\ gl_tex_params' = c.gl_tex_params
    /\ tex_panicked' = c.panicked
    /\ UNCHANGED <<sampler_objects, texture_unit_limit>>

\* GlesTexture::new: the driver hands out an unused handle, the texture is
\* activated and its image uploaded
TextureNew ==
    /\ TexIdling
    /\ \E t \in Textures \ live_textures :
          /\ TexCommit(activate_texture(GlesCtx, t))
          /\ live_textures' = live_textures \cup {t}
    /\ last_draw' = NoDraw
    /\ UNCHANGED otherThanTex

\* GlesTexture::write, write_rect and generate_mipmaps: the texture is
\* activated, then the driver call acts on the active unit
TextureWrite(t) ==
    /\ TexIdling
    /\ t \in live_textures
    /\ TexCommit(activate_texture(GlesCtx, t))
    /\ last_draw' = NoDraw
    /\ UNCHANGED live_textures
    /\ UNCHANGED otherThanTex

\* GlesTexture::drop
TextureDrop(t) ==
    /\ TexIdling
    /\ t \in live_textures
    /\ TexCommit(drop_texture(GlesCtx, t))
    /\ live_textures' = live_textures \ {t}
    /\ last_draw' = NoDraw
    /\ UNCHANGED otherThanTex

\* GlesFrameBuffer::draw with the given shader and sampler attributes, up to
\* the return of bind_textures
TextureDraw(shader, textures) ==
    /\ TexIdling
    /\ LET r == draw_textures(GlesCtx, shader, textures)
       IN  /\ TexCommit(r)
           /\ last_draw' =
                 [kind |-> "draw",
                  distinct |->
                      Cardinality(RequestedTextures(shader, textures)),
                  panicked |-> r.panicked,
                  claimed_evicted |-> r.claimed_evicted,
                  applied |-> BindingsApplied(r, shader, textures),
                  sampled |-> SamplingApplied(r, shader, textures),
                  stale |-> SamplingStale(r, shader, textures),
                  twice |-> SameTextureTwice(shader, textures),
                  split |-> SameTextureTwice(shader, textures)
                              /\ UnitsSplit(r, shader),
                  mirror_samplers |->
                      SameTextureTwice(shader, textures)
                        /\ MirrorSamplersApplied(r, shader, textures),
                  driver_samplers |->
                      SameTextureTwice(shader, textures)
                        /\ DriverSamplersApplied(r, shader, textures),
                  claimed_resampled |-> r.claimed_resampled]
    /\ UNCHANGED live_textures
    /\ UNCHANGED otherThanTex

\* GlesFrameBuffer::draw from the return of bind_textures on: bind_uniforms
\* and draw_impl, which issues the driver's draw call; a panic in
\* bind_textures unwinds past them
DrawImpl ==
    /\ ~tex_panicked
    /\ last_draw.kind = "draw"
    /\ last_draw' = NoDraw
    /\ UNCHANGED <<sampler_objects, texture_unit_limit, texture_units,
                   active_texture_unit, bound_program, real_cache,
                   fallback_cache, sampler_attributes, live_textures,
                   gl_active_texture, gl_texture_units, gl_program,
                   gl_uniforms, gl_samplers, gl_tex_params, tex_panicked>>
    /\ UNCHANGED otherThanTex

TexNext ==
    \/ TextureNew
    \/ \E t \in Textures : TextureWrite(t)
    \/ \E t \in Textures : TextureDrop(t)
    \/ \E shader \in Shaders : \E o \in PassableNames(shader) :
          \E ts \in [DOMAIN o -> live_textures],
             ss \in [DOMAIN o -> SamplerStates] :
                TextureDraw(shader, SamplerAttributeList(o, ts, ss))
    \/ DrawImpl


(***************************************************************************)
(* Draw parameters: the mirror kept in GlesState and the driver's values.  *)
(***************************************************************************)
\* Option<T>: None is the empty sequence, Some(v) the sequence of v alone
None == <<>>

Some(v) == <<v>>

Options(values) == {None} \cup {Some(v) : v \in values}

\* Rect<u32> values; the window and every framebuffer are 2 by 2
Rect(x, y, w, h) == [x |-> x, y |-> y, w |-> w, h |-> h]

FramebufferSize == [w |-> 2, h |-> 2]

RectZero == Rect(0, 0, 0, 0)

RectFull == Rect(0, 0, FramebufferSize.w, FramebufferSize.h)

RectCorner == Rect(0, 0, 1, 1)

\* the rectangles a caller passes; each lies within the framebuffer
Rects == {RectFull, RectCorner}

\* Rgba<f32> and Rgba<bool> values
Colors == {"transparent", "white"}

ColorMasks == {"rgba", "rgb"}

\* f32 values; NaN differs from every f32, itself included
LineWidths == {"1.0", "2.0", "NaN"}

ClearDepths == {"0.0", "1.0"}

ClearStencils == {0, 1}

\* Blend::default(), Blend::alpha() and a blend with its own equation and color
BlendDefault ==
    [equation |-> "Add", function |-> "One,Zero", color |-> "transparent"]

BlendAlpha ==
    [equation |-> "Add", function |-> "alpha", color |-> "transparent"]

BlendTinted ==
    [equation |-> "Subtract", function |-> "alpha", color |-> "white"]

Blends == {BlendDefault, BlendAlpha, BlendTinted}

CullFaceModes == {"Front", "Back", "All"}

\* Depth::default() and two depth tests that write
DepthDefault == [test |-> "Always", write |-> FALSE, range |-> "0,1"]

DepthLess == [test |-> "Less", write |-> TRUE, range |-> "0,1"]

DepthNear == [test |-> "Less", write |-> TRUE, range |-> "0,0.5"]

Depths == {DepthDefault, DepthLess, DepthNear}

\* StencilCheck::default() and two others
StencilCheckDefault ==
    [function |-> "Always,0,0xff", action |-> "Keep", action_mask |-> "0xff"]

StencilCheckEqual ==
    [function |-> "Equal,1,0xff", action |-> "Keep", action_mask |-> "0xff"]

StencilCheckReplace ==
    [function |-> "Always,1,0xff", action |-> "Replace", action_mask |-> "0x0f"]

StencilChecks == {StencilCheckDefault, StencilCheckEqual, StencilCheckReplace}

Stencils == [front : StencilChecks, back : StencilChecks]

StencilDefault == [front |-> StencilCheckDefault, back |-> StencilCheckDefault]

PolygonOffsetDefault == [factor |-> "0.0", units |-> "0.0"]

PolygonOffsets == {PolygonOffsetDefault, [factor |-> "1.0", units |-> "1.0"]}

\* Feature<T>
Feature(enabled, value) == [enabled |-> enabled, value |-> value]

\* GlesState::default(), as far as draw parameters go
GlesStateDefault ==
    [clear_color    |-> "transparent",
     clear_depth    |-> "0.0",
     clear_stencil  |-> 0,
     blend          |-> Feature(FALSE, BlendDefault),
     cull_face      |-> Feature(FALSE, "Front"),
     depth          |-> Feature(FALSE, DepthDefault),
     stencil        |-> Feature(FALSE, StencilDefault),
     scissor        |-> Feature(FALSE, RectZero),
     polygon_offset |-> Feature(FALSE, PolygonOffsetDefault),
     color_mask     |-> "rgba",
     line_width     |-> "1.0",
     dithering      |-> FALSE,
     viewport       |-> RectZero]

\* the state of a fresh OpenGL ES 2 context, in the mirror's terms: only
\* dithering is enabled; the cull mode is BACK, the depth function LESS with
\* depth writes on, the clear depth 1, scissor box and viewport the window
GlStateDefault ==
    [clear_color    |-> "transparent",
     clear_depth    |-> "1.0",
     clear_stencil  |-> 0,
     blend          |-> Feature(FALSE, BlendDefault),
     cull_face      |-> Feature(FALSE, "Back"),
     depth          |-> Feature(FALSE, DepthLess),
     stencil        |-> Feature(FALSE, StencilDefault),
     scissor        |-> Feature(FALSE, RectFull),
     polygon_offset |-> Feature(FALSE, PolygonOffsetDefault),
     color_mask     |-> "rgba",
     line_width     |-> "1.0",
     dithering      |-> TRUE,
     viewport       |-> RectFull]

\* the mirror, the driver and the driver calls issued so far by the
\* operation under way
ParamCtx == [state |-> gles_state, gl |-> gl_state, calls |-> <<>>]

\* one driver call that sets the driver's value of a parameter
GlCall(c, name) == [c EXCEPT !.calls = Append(@, name)]

MutAlwaysDiffers(a, b) == TRUE

\* a != b by the PartialEq the parameter types derive
Differs(a, b) == a # b

\* a != b for f32: NaN differs from itself
F32Differs(a, b) == a # b \/ a = "NaN" \/ b = "NaN"

\* set_parameter: gl.enable or gl.disable of the capability of a feature
set_parameter(c, feature, value) ==
    GlCall([c EXCEPT !.gl[feature].enabled = value],
           IF value THEN "enable" ELSE "disable")

\* Feature::update, first half: enable or disable when is_some() changes
feature_enable(c, feature, value) ==
    IF (value # None) # c.state[feature].enabled
    THEN [set_parameter(c, feature, value # None) EXCEPT
            !.state[feature].enabled = (value # None)]
    ELSE c

\* Feature::update, second half: whether the update closure runs
feature_changed(c, feature, value) ==
    value # None /\ Differs(value[1], c.state[feature].value)

\* GlesContextRef::set_polygon_offset
set_polygon_offset(c, polygon_offset) ==
    LET a == feature_enable(c, "polygon_offset", polygon_offset)
    IN  IF feature_changed(a, "polygon_offset", polygon_offset)
        THEN [GlCall(a, "polygon_offset") EXCEPT
                !.gl.polygon_offset.value = polygon_offset[1],
                !.state.polygon_offset.value = polygon_offset[1]]
        ELSE a

\* GlesContextRef::set_cull_face
set_cull_face(c, cull_face) ==
    LET a == feature_enable(c, "cull_face", cull_face)
    IN  IF feature_changed(a, "cull_face", cull_face)
        THEN [GlCall(a, "cull_face") EXCEPT
                !.gl.cull_face.value = cull_face[1],
                !.state.cull_face.value = cull_face[1]]
        ELSE a

\* GlesContextRef::set_scissor
set_scissor(c, scissor) ==
    LET a == feature_enable(c, "scissor", scissor)
    IN  IF feature_changed(a, "scissor", scissor)
        THEN [GlCall(a, "scissor") EXCEPT
                !.gl.scissor.value = scissor[1],
                !.state.scissor.value = scissor[1]]
        ELSE a

\* GlesContextRef::set_blend
set_blend(c, blend) ==
    LET a == feature_enable(c, "blend", blend)
    IN  IF feature_changed(a, "blend", blend)
        THEN LET old == a.state.blend.value
                 new == blend[1]
                 b1 == IF Differs(old.color, new.color)
                       THEN [GlCall(a, "blend_color") EXCEPT
                               !.gl.blend.value.color = new.color]
                       ELSE a
                 b2 == IF Differs(old.equation, new.equation)
                       THEN [GlCall(b1, "blend_equation_separate") EXCEPT
                               !.gl.blend.value.equation = new.equation]
                       ELSE b1
                 b3 == IF Differs(old.function, new.function)
                       THEN [GlCall(b2, "blend_func_separate") EXCEPT
                               !.gl.blend.value.function = new.function]
                       ELSE b2
             IN  [b3 EXCEPT !.state.blend.value = new]
        ELSE a

\* GlesContextRef::set_depth
set_depth(c, depth) ==
    LET a == feature_enable(c, "depth", depth)
    IN  IF feature_changed(a, "depth", depth)
        THEN LET old == a.state.depth.value
                 new == depth[1]
                 d1 == IF Differs(old.test, new.test)
                       THEN [GlCall(a, "depth_func") EXCEPT
                               !.gl.depth.value.test = new.test]
                       ELSE a
                 d2 == IF Differs(old.write, new.write)
                       THEN [GlCall(d1, "depth_mask") EXCEPT
                               !.gl.depth.value.write = new.write]
                       ELSE d1
                 d3 == IF Differs(old.range, new.range)
                       THEN [GlCall(d2, "depth_range_f32") EXCEPT
                               !.gl.depth.value.range = new.range]
                       ELSE d2
             IN  [d3 EXCEPT !.state.depth.value = new]
        ELSE a

\* set_stencil's inner update of one face ("front" or "back")
stencil_update(c, face, old, new) ==
    LET s1 == IF Differs(old.action, new.action)
              THEN [GlCall(c, "stencil_op_separate") EXCEPT
                      !.gl.stencil.value[face].action = new.action]
              ELSE c
        s2 == IF Differs(old.function, new.function)
              THEN [GlCall(s1, "stencil_func_separate") EXCEPT
                      !.gl.stencil.value[face].function = new.function]
              ELSE s1
    IN  IF Differs(old.action_mask, new.action_mask)
        THEN [GlCall(s2, "stencil_mask_separate") EXCEPT
                !.gl.stencil.value[face].action_mask = new.action_mask]
        ELSE s2

\* GlesContextRef::set_stencil
set_stencil(c, stencil) ==
    LET a == feature_enable(c, "stencil", stencil)
    IN  IF feature_changed(a, "stencil", stencil)
        THEN LET old == a.state.stencil.value
                 new == stencil[1]
                 b == stencil_update(a, "back", old.back, new.back)
                 f == stencil_update(b, "front", old.front, new.front)
             IN  [f EXCEPT !.state.stencil.value = new]
        ELSE a

\* GlesContextRef::set_dithering
set_dithering(c, dithering) ==
    IF Differs(c.state.dithering, dithering)
    THEN [GlCall(c, IF dithering THEN "enable" ELSE "disable") EXCEPT
            !.gl.dithering = dithering, !.state.dithering = dithering]
    ELSE c

\* GlesContextRef::set_color_mask
set_color_mask(c, mask) ==
    IF Differs(c.state.color_mask, mask)
    THEN [GlCall(c, "color_mask") EXCEPT
            !.gl.color_mask = mask, !.state.color_mask = mask]
    ELSE c

\* GlesContextRef::set_line_width
set_line_width(c, line_width) ==
    IF F32Differs(c.state.line_width, line_width)
    THEN [GlCall(c, "line_width") EXCEPT
            !.gl.line_width = line_width, !.state.line_width = line_width]
    ELSE c

\* GlesContextRef::set_viewport
set_viewport(c, viewport) ==
    IF Differs(viewport, c.state.viewport)
    THEN [GlCall(c, "viewport") EXCEPT
            !.gl.viewport = viewport, !.state.viewport = viewport]
    ELSE c

\* GlesContextRef::set_clear_color
set_clear_color(c, color) ==
    IF Differs(c.state.clear_color, color)
    THEN [GlCall(c, "clear_color") EXCEPT
            !.gl.clear_color = color, !.state.clear_color = color]
    ELSE c

\* GlesContextRef::set_clear_depth
set_clear_depth(c, depth) ==
    IF F32Differs(c.state.clear_depth, depth)
    THEN [GlCall(c, "clear_depth_f32") EXCEPT
            !.gl.clear_depth = depth, !.state.clear_depth = depth]
    ELSE c

\* GlesContextRef::set_clear_stencil
set_clear_stencil(c, stencil) ==
    IF Differs(c.state.clear_stencil, stencil)
    THEN [GlCall(c, "clear_stencil") EXCEPT
            !.gl.clear_stencil = stencil, !.state.clear_stencil = stencil]
    ELSE c

\* GlesContextRef::clear
clear(c, scissor, color, depth, stencil) ==
    IF color = None /\ depth = None /\ stencil = None THEN c
    ELSE LET a == set_scissor(set_color_mask(c, "rgba"), scissor)
             b == IF color # None THEN set_clear_color(a, color[1]) ELSE a
             d == IF depth # None THEN set_clear_depth(b, depth[1]) ELSE b
             e == IF stencil # None THEN set_clear_stencil(d, stencil[1])
                  ELSE d
         IN  GlCall(e, "clear")

\* to_y_up: a y-down rectangle in a framebuffer of the given size, y-up
to_y_up(rect, size) == Rect(rect.x, size.h - rect.y - rect.h, rect.w, rect.h)

\* Option::map(to_y_up), applied unless the default framebuffer is flipped
MapToYUp(rect) ==
    IF flip_default_framebuffer \/ rect = None THEN rect
    ELSE Some(to_y_up(rect[1], FramebufferSize))

\* GlesFrameBuffer::clear, as far as draw parameters go
frame_buffer_clear(c, scissor, color, depth, stencil) ==
    clear(c, MapToYUp(scissor), color, depth, stencil)

\* DrawParameters::default()
DrawParametersDefault ==
    [blend          |-> None,
     color_mask     |-> "rgba",
     cull_face      |-> None,
     depth          |-> None,
     stencil        |-> None,
     scissor        |-> None,
     viewport       |-> None,
     line_width     |-> "1.0",
     polygon_offset |-> None,
     dithering      |-> FALSE]

\* the draw parameters the draw calls of the model pass: the default, alpha
\* blending, a depth-tested and culled mesh, and one with every field set
DrawParameterSets ==
    {DrawParametersDefault,
     [DrawParametersDefault EXCEPT !.blend = Some(BlendAlpha)],
     [DrawParametersDefault EXCEPT !.cull_face = Some("Front"),
                                   !.depth = Some(DepthDefault),
                                   !.scissor = Some(RectCorner)],
     [blend          |-> Some(BlendTinted),
      color_mask     |-> "rgb",
      cull_face      |-> Some("Back"),
      depth          |-> Some(DepthNear),
      stencil        |-> Some([front |-> StencilCheckEqual,
                               back |-> StencilCheckReplace]),
      scissor        |-> Some(RectFull),
      viewport       |-> Some(RectCorner),
      line_width     |-> "2.0",
      polygon_offset |-> Some([factor |-> "1.0", units |-> "1.0"]),
      dithering      |-> TRUE]}

\* set_draw_parameters
set_draw_parameters(c, draw_parameters) ==
    LET scissor  == MapToYUp(draw_parameters.scissor)
        viewport == MapToYUp(draw_parameters.viewport)
        rect     == IF viewport = None THEN RectFull ELSE viewport[1]
        p1  == set_blend(c, draw_parameters.blend)
        p2  == set_color_mask(p1, draw_parameters.color_mask)
        p3  == set_cull_face(p2, draw_parameters.cull_face)
        p4  == set_depth(p3, draw_parameters.depth)
        p5  == set_stencil(p4, draw_parameters.stencil)
        p6  == set_scissor(p5, scissor)
        p7  == set_viewport(p6, rect)
        p8  == set_line_width(p7, draw_parameters.line_width)
        p9  == set_polygon_offset(p8, draw_parameters.polygon_offset)
    IN  set_dithering(p9, draw_parameters.dithering)

\* FallbackFramebufferBlitter::blit and ScreenFlipper::blit, as far as draw
\* parameters go
fallback_blit(c, viewport) ==
    LET b1 == set_blend(c, None)
        b2 == set_color_mask(b1, "rgba")
        b3 == set_cull_face(b2, None)
        b4 == set_depth(b3, None)
        b5 == set_stencil(b4, None)
        b6 == set_scissor(b5, None)
        b7 == set_viewport(b6, viewport)
    IN  set_dithering(b7, FALSE)

\* FrameBufferBlitter::blit, as far as draw parameters go
blit(c, destination) ==
    IF blit_framebuffer THEN set_scissor(c, None)
    ELSE fallback_blit(c, destination)

\* the draw parameters of GlesState
ParamNames ==
    {"clear_color", "clear_depth", "clear_stencil", "blend", "cull_face",
     "depth", "stencil", "scissor", "polygon_offset", "color_mask",
     "line_width", "dithering", "viewport"}

\* the values the setter of a parameter is called with
ParamValues(param) ==
    CASE param = "clear_color"    -> Colors
      [] param = "clear_depth"    -> ClearDepths
      [] param = "clear_stencil"  -> ClearStencils
      [] param = "blend"          -> Options(Blends)
      [] param = "cull_face"      -> Options(CullFaceModes)
      [] param = "depth"          -> Options(Depths)
      [] param = "stencil"        -> Options(Stencils)
      [] param = "scissor"        -> Options(Rects)
      [] param = "polygon_offset" -> Options(PolygonOffsets)
      [] param = "color_mask"     -> ColorMasks
      [] param = "line_width"     -> LineWidths
      [] param = "dithering"      -> BOOLEAN
      [] param = "viewport"       -> Rects

\* the setter of a parameter
set_param(c, param, value) ==
    CASE param = "clear_color"    -> set_clear_color(c, value)
      [] param = "clear_depth"    -> set_clear_depth(c, value)
      [] param = "clear_stencil"  -> set_clear_stencil(c, value)
      [] param = "blend"          -> set_blend(c, value)
      [] param = "cull_face"      -> set_cull_face(c, value)
      [] param = "depth"          -> set_depth(c, value)
      [] param = "stencil"        -> set_stencil(c, value)
      [] param = "scissor"        -> set_scissor(c, value)
      [] param = "polygon_offset" -> set_polygon_offset(c, value)
      [] param = "color_mask"     -> set_color_mask(c, value)
      [] param = "line_width"     -> set_line_width(c, value)
      [] param = "dithering"      -> set_dithering(c, value)
      [] param = "viewport"       -> set_viewport(c, value)

\* the most driver calls one setter call can issue: one for a plain
\* parameter; for a feature one to enable or disable and one for each part
\* of the value that is compared on its own
MostCalls(param) ==
    CASE param \in {"blend", "depth"}                         -> 4
      [] param = "stencil"                                    -> 7
      [] param \in {"cull_face", "scissor", "polygon_offset"} -> 2
      [] OTHER                                                -> 1

\* the value compares equal to itself
SelfEqual(param, value) == param # "line_width" \/ value # "NaN"

\* no operation has been made yet
NoOp == [kind |-> "none", value |-> None]

NoRepeat == [repeated |-> FALSE, first_calls |-> 0]

\* the state right after GlesContext::new: the mirror is GlesState::default()
\* and no draw parameter has been passed to the driver
ParamInit ==
    /\ gles_state = GlesStateDefault
    /\ gl_state = GlStateDefault
    /\ flip_default_framebuffer \in BOOLEAN
    /\ blit_framebuffer \in BOOLEAN
    /\ param_focus \in ParamNames
    /\ param_op = NoOp
    /\ param_calls = <<>>
    /\ param_repeat = NoRepeat

\* the draw parameters while another part of the program is under study
ParamIdle ==
    /\ gles_state = GlesStateDefault
    /\ gl_state = GlStateDefault
    /\ flip_default_framebuffer = FALSE
    /\ blit_framebuffer = FALSE
    /\ param_focus = "blend"
    /\ param_op = NoOp
    /\ param_calls = <<>>
    /\ param_repeat = NoRepeat

\* the mirror and the driver after an operation
ParamCommit(c) ==
    /\ gles_state' = c.state
    /\ gl_state' = c.gl
    /\ UNCHANGED <<flip_default_framebuffer, blit_framebuffer, param_focus>>

\* an operation other than a call of the setter under study has been made
ParamOther(kind) ==
    /\ param_op' = [kind |-> kind, value |-> None]
    /\ param_calls' = <<>>
    /\ param_repeat' = NoRepeat

\* one call of the setter of the parameter under study
SetParameter(value) ==
    /\ ParamCommit(set_param(ParamCtx, param_focus, value))
    /\ param_calls' = set_param(ParamCtx, param_focus, value).calls
    /\ param_op' = [kind |-> "set", value |-> Some(value)]
    /\ param_repeat' =
         [repeated    |-> param_op = [kind |-> "set", value |-> Some(value)],
          first_calls |-> Len(param_calls)]
    /\ UNCHANGED otherThanParam

\* GlesFrameBuffer::draw, from draw_impl's set_draw_parameters on
ParamDraw(draw_parameters) ==
    /\ ParamCommit(GlCall(set_draw_parameters(ParamCtx, draw_parameters),
                          "draw"))
    /\ ParamOther("draw")
    /\ UNCHANGED otherThanParam

\* GlesFrameBuffer::clear
ParamClear(scissor, color, depth, stencil) ==
    /\ ParamCommit(frame_buffer_clear(ParamCtx, scissor, color, depth,
                                      stencil))
    /\ ParamOther("clear")
    /\ UNCHANGED otherThanParam

\* FrameBufferBlitter::blit
ParamBlit(destination) ==
    /\ ParamCommit(GlCall(blit(ParamCtx, destination), "blit"))
    /\ ParamOther("blit")
    /\ UNCHANGED otherThanParam

\* calls of one setter between draw calls
SetNext ==
    \/ \E value \in ParamValues(param_focus) : SetParameter(value)
    \/ \E draw_parameters \in DrawParameterSets : ParamDraw(draw_parameters)

\* draw, clear and blit calls
ParamNext ==
    \/ \E draw_parameters \in DrawParameterSets : ParamDraw(draw_parameters)
    \/ \E scissor \in Options(Rects), color \in Options(Colors),
          depth \in Options(ClearDepths), stencil \in Options(ClearStencils) :
            ParamClear(scissor, color, depth, stencil)
    \/ \E destination \in Rects : ParamBlit(destination)

(***************************************************************************)
(* Object bindings: framebuffer, render buffer, buffers, vertex array and  *)
(* program, as mirrored in GlesState and as current in the driver.         *)
(***************************************************************************)
\* the names the driver hands out for buffers, and for framebuffers, render
\* buffers and vertex arrays; 0 is no object
BufferHandles == 1..MaxBuffers

Handles == 1..MaxHandles

BufferKinds == {"Index", "Vertex"}

\* the vertex buffer and the program of FallbackFramebufferBlitter
BlitBuffer == MaxBuffers + 1

BlitProgram == Cardinality(Shaders) + 1

\* the vertex arrays of the driver; 0 is the default vertex array
VertexArrays == 0..MaxHandles

\* The state the operations below thread through: the mirror and the driver
BindCtx ==
    [bound_frame_buffer    |-> bound_frame_buffer,
     bound_render_buffer   |-> bound_render_buffer,
     bound_buffers         |-> bound_buffers,
     bound_vertex_array    |-> bound_vertex_array,
     bound_program         |-> bound_program,
     draw_descriptor_cache |-> draw_descriptor_cache,
     gl_program            |-> gl_program,
     gl                    |-> gl_bindings]

\* glBindBuffer: ARRAY_BUFFER is a binding of the context, and
\* ELEMENT_ARRAY_BUFFER one of the vertex array that is bound
GlBindBuffer(c, kind, buffer) ==
    IF kind = "Vertex" THEN [c EXCEPT !.gl.array_buffer = buffer]
    ELSE [c EXCEPT !.gl.element_buffers[c.gl.vertex_array] = buffer]

\* the driver's binding of a kind of buffer
GlBoundBuffer(gl, kind) ==
    IF kind = "Vertex" THEN gl.array_buffer
    ELSE gl.element_buffers[gl.vertex_array]

\* glDeleteBuffers: the bindings of the buffer in the context and in the
\* bound vertex array revert to none
GlDeleteBuffer(c, buffer) ==
    [c EXCEPT
       !.gl.array_buffer = IF @ = buffer THEN 0 ELSE @,
       !.gl.element_buffers[c.gl.vertex_array] = IF @ = buffer THEN 0 ELSE @]

\* glBindFramebuffer(FRAMEBUFFER, f): binds for drawing and for reading
GlBindFramebuffer(c, framebuffer) ==
    [c EXCEPT !.gl.draw_frame_buffer = framebuffer,
              !.gl.read_frame_buffer = framebuffer]

\* glVertexAttribPointer: the pointers of the vertex array that is bound
\* read from the buffer bound to ARRAY_BUFFER at the time of the call
GlVertexAttribPointer(c) ==
    [c EXCEPT !.gl.attrib_buffers[c.gl.vertex_array] = c.gl.array_buffer]

\* glDeleteFramebuffers: a binding of the framebuffer reverts to the default
GlDeleteFramebuffer(c, framebuffer) ==
    [c EXCEPT !.gl.draw_frame_buffer = IF @ = framebuffer THEN 0 ELSE @,
              !.gl.read_frame_buffer = IF @ = framebuffer THEN 0 ELSE @]

\* glDeleteRenderbuffers: a binding of the render buffer reverts to none
GlDeleteRenderbuffer(c, renderbuffer) ==
    [c EXCEPT !.gl.render_buffer = IF @ = renderbuffer THEN 0 ELSE @]

\* glDeleteVertexArrays: a binding of the vertex array reverts to the default
GlDeleteVertexArray(c, vertex_array) ==
    [c EXCEPT !.gl.vertex_array = IF @ = vertex_array THEN 0 ELSE @,
              !.gl.element_buffers[vertex_array] = 0,
              !.gl.attrib_buffers[vertex_array] = 0]

\* GlesContextRef::bind_render_buffer
bind_render_buffer(c, renderbuffer) ==
    IF c.bound_render_buffer # renderbuffer
    THEN [c EXCEPT !.gl.render_buffer = renderbuffer,
                   !.bound_render_buffer = renderbuffer]
    ELSE c

\* GlesContextRef::bind_frame_buffer
bind_frame_buffer(c, framebuffer) ==
    IF c.bound_frame_buffer # framebuffer
    THEN [GlBindFramebuffer(c, framebuffer) EXCEPT
            !.bound_frame_buffer = framebuffer]
    ELSE c

\* GlesContextRef::bind_buffer
bind_buffer(c, kind, buffer) ==
    IF c.bound_buffers[kind] # buffer
    THEN [GlBindBuffer(c, kind, buffer) EXCEPT !.bound_buffers[kind] = buffer]
    ELSE c

\* GlesContextRef::bind_vertex_array
bind_vertex_array(c, vertex_array) ==
    LET a == [c EXCEPT !.bound_buffers = [k \in BufferKinds |-> 0]]
    IN  IF a.bound_vertex_array # vertex_array
        THEN [a EXCEPT !.gl.vertex_array = vertex_array,
                       !.bound_vertex_array = vertex_array]
        ELSE a

\* draw_descriptor::bind_buffers, as far as bindings go: the index buffer,
\* then the vertex buffer (0: the descriptor has none) and the pointers of
\* its attributes
bind_buffers(c, descriptor) ==
    LET a == bind_buffer(c, "Index", descriptor.index)
    IN  IF descriptor.vertex # 0
        THEN GlVertexAttribPointer(bind_buffer(a, "Vertex", descriptor.vertex))
        ELSE a

\* vao::GlesDrawDescriptor::new and fallback::GlesDrawDescriptor::new
descriptor_new(c, id, descriptor) ==
    IF vertex_array_objects
    THEN bind_buffers(bind_vertex_array(c, id), descriptor)
    ELSE [c EXCEPT !.draw_descriptor_cache.counter = id]

\* GlesDrawDescriptor::bind
descriptor_bind(c, id) ==
    IF vertex_array_objects THEN bind_vertex_array(c, id)
    ELSE IF c.draw_descriptor_cache.current = id THEN c
    ELSE bind_buffers([c EXCEPT !.draw_descriptor_cache.current = id],
                      descriptors[id])

\* Drop for vao::GlesDrawDescriptor; the fallback descriptor has no Drop
descriptor_drop(c, id) ==
    IF vertex_array_objects
    THEN GlDeleteVertexArray(IF c.bound_vertex_array = id
                             THEN bind_vertex_array(c, 0) ELSE c, id)
    ELSE c

\* GlesBuffer::new
buffer_new(c, kind, buffer) == bind_buffer(c, kind, buffer)

\* GlesBuffer::write
buffer_write(c, kind, buffer) ==
    bind_buffer(bind_vertex_array(c, 0), kind, buffer)

\* Drop for GlesBuffer
buffer_drop(c, kind, buffer) ==
    GlDeleteBuffer(IF c.bound_buffers[kind] = buffer
                   THEN bind_buffer(c, kind, 0) ELSE c, buffer)

\* GlesRenderBuffer::new
render_buffer_new(c, renderbuffer) == bind_render_buffer(c, renderbuffer)

\* Drop for GlesRenderBuffer
render_buffer_drop(c, renderbuffer) ==
    GlDeleteRenderbuffer(IF c.bound_render_buffer = renderbuffer
                         THEN bind_render_buffer(c, 0) ELSE c, renderbuffer)

\* GlesFrameBuffer::new: gl.bind_framebuffer is called on the driver itself
frame_buffer_new(c, framebuffer) == GlBindFramebuffer(c, framebuffer)

\* Drop for GlesFrameBuffer
frame_buffer_drop(c, framebuffer) ==
    GlDeleteFramebuffer(IF c.bound_frame_buffer = framebuffer
                        THEN bind_frame_buffer(c, 0) ELSE c, framebuffer)

\* GlesFrameBuffer::draw and draw_impl, as far as bindings go
draw_bindings(c, framebuffer, id) ==
    descriptor_bind(
        bind_frame_buffer(use_program(c, descriptors[id].shader),
                          framebuffer),
        id)

\* FallbackFramebufferBlitter::new
fallback_blitter_new(c) ==
    use_program(bind_buffer(c, "Vertex", BlitBuffer), BlitProgram)

\* FallbackFramebufferBlitter::blit, as far as bindings go
fallback_blit_bindings(c, frame_buffer) ==
    LET a == use_program(bind_frame_buffer(c, frame_buffer), BlitProgram)
        b == IF vertex_array_objects THEN bind_vertex_array(a, 0) ELSE a
    IN  GlVertexAttribPointer(
            bind_buffer([b EXCEPT !.draw_descriptor_cache.current = 0],
                        "Vertex", BlitBuffer))

\* FrameBufferBlitter::blit, as far as bindings go: without a fallback the
\* framebuffer to read is bound by gl.bind_framebuffer(READ_FRAMEBUFFER, ..)
blit_bindings(c, fb_write, fb_read) ==
    IF blit_framebuffer
    THEN [bind_frame_buffer(c, fb_write) EXCEPT
            !.gl.read_frame_buffer = fb_read]
    ELSE fallback_blit_bindings(c, fb_write)

\* the driver of a context on which nothing has been bound
GlBindingsDefault ==
    [draw_frame_buffer |-> 0,
     read_frame_buffer |-> 0,
     render_buffer     |-> 0,
     array_buffer      |-> 0,
     vertex_array      |-> 0,
     element_buffers   |-> [v \in VertexArrays |-> 0],
     attrib_buffers    |-> [v \in VertexArrays |-> 0]]

\* GlesState::default() and the driver before FrameBufferBlitter::new
BindCtxDefault ==
    [bound_frame_buffer    |-> 0,
     bound_render_buffer   |-> 0,
     bound_buffers         |-> [k \in BufferKinds |-> 0],
     bound_vertex_array    |-> 0,
     bound_program         |-> 0,
     draw_descriptor_cache |-> [counter |-> 0, current |-> 0],
     gl_program            |-> 0,
     gl                    |-> GlBindingsDefault]

\* GlesContext::new: FrameBufferBlitter::new makes a fallback blitter when
\* the driver cannot blit framebuffers
BindCtxNew ==
    IF blit_framebuffer THEN BindCtxDefault
    ELSE fallback_blitter_new(BindCtxDefault)

\* the mirror and the driver are those of c
BindIs(c) ==
    /\ bound_frame_buffer = c.bound_frame_buffer
    /\ bound_render_buffer = c.bound_render_buffer
    /\ bound_buffers = c.bound_buffers
    /\ bound_vertex_array = c.bound_vertex_array
    /\ bound_program = c.bound_program
    /\ draw_descriptor_cache = c.draw_descriptor_cache
    /\ gl_program = c.gl_program
    /\ gl_bindings = c.gl

NoBindOp == [kind |-> "none", frame_buffer |-> 0]

\* the slot of a draw descriptor that is not alive; one that is alive has
\* the program of its shader (not 0), its index buffer and its vertex
\* buffer (0: none)
NoDescriptor == [shader |-> 0, index |-> 0, vertex |-> 0]

\* no buffer, render buffer, framebuffer or draw descriptor is alive
NoObjects ==
    /\ buffers = [b \in BufferHandles |-> "none"]
    /\ render_buffers = {}
    /\ frame_buffers = {}
    /\ descriptors = [d \in Handles |-> NoDescriptor]

\* the state right after GlesContext::new
BindInit ==
    /\ vertex_array_objects \in BOOLEAN
    /\ BindIs(BindCtxNew)
    /\ NoObjects
    /\ bind_op = NoBindOp

\* the bindings while another part of the program is under study
BindIdle ==
    /\ vertex_array_objects = FALSE
    /\ bound_frame_buffer = 0
    /\ bound_render_buffer = 0
    /\ bound_buffers = [k \in BufferKinds |-> 0]
    /\ bound_vertex_array = 0
    /\ draw_descriptor_cache = [counter |-> 0, current |-> 0]
    /\ gl_bindings = GlBindingsDefault
    /\ NoObjects
    /\ bind_op = NoBindOp

\* the mirror and the driver after an operation that ended in state c; the
\* operation is recorded if it is a draw, a clear or a blit
BindCommit(c, kind, frame_buffer) ==
    /\ bound_frame_buffer' = c.bound_frame_buffer
    /\ bound_render_buffer' = c.bound_render_buffer
    /\ bound_buffers' = c.bound_buffers
    /\ bound_vertex_array' = c.bound_vertex_array
    /\ bound_program' = c.bound_program
    /\ draw_descriptor_cache' = c.draw_descriptor_cache
    /\ gl_program' = c.gl_program
    /\ gl_bindings' = c.gl
    /\ bind_op' = IF kind \in {"draw", "clear", "blit"}
                  THEN [kind |-> kind, frame_buffer |-> frame_buffer]
                  ELSE NoBindOp
    /\ UNCHANGED vertex_array_objects
    /\ UNCHANGED otherThanBind

\* buffers of a kind that are alive
LiveBuffers(kind) == {b \in BufferHandles : buffers[b] = kind}

\* the draw descriptors that are alive
LiveDescriptors == {d \in Handles : descriptors[d] # NoDescriptor}

\* the buffers held by a draw descriptor that is alive
HeldBuffers ==
    UNION {{descriptors[d].index, descriptors[d].vertex} : d \in LiveDescriptors}

\* the framebuffers a draw, clear or blit can target: the default one and
\* those that are alive
Targets == {0} \cup frame_buffers

BufferNew(kind) ==
    \E b \in BufferHandles :
      /\ buffers[b] = "none"
      /\ BindCommit(buffer_new(BindCtx, kind, b), "buffer_new", 0)
      /\ buffers' = [buffers EXCEPT ![b] = kind]
      /\ UNCHANGED <<render_buffers, frame_buffers, descriptors>>

BufferWrite(b) ==
    /\ buffers[b] # "none"
    /\ BindCommit(buffer_write(BindCtx, buffers[b], b), "buffer_write", 0)
    /\ UNCHANGED <<buffers, render_buffers, frame_buffers, descriptors>>

\* a buffer is dropped when the last Rc to it is: no descriptor holds it
BufferDrop(b) ==
    /\ buffers[b] # "none"
    /\ b \notin HeldBuffers
    /\ BindCommit(buffer_drop(BindCtx, buffers[b], b), "buffer_drop", 0)
    /\ buffers' = [buffers EXCEPT ![b] = "none"]
    /\ UNCHANGED <<render_buffers, frame_buffers, descriptors>>

RenderBufferNew ==
    \E r \in Handles \ render_buffers :
      /\ BindCommit(render_buffer_new(BindCtx, r), "render_buffer_new", 0)
      /\ render_buffers' = render_buffers \cup {r}
      /\ UNCHANGED <<buffers, frame_buffers, descriptors>>

RenderBufferDrop(r) ==
    /\ r \in render_buffers
    /\ BindCommit(render_buffer_drop(BindCtx, r), "render_buffer_drop", 0)
    /\ render_buffers' = render_buffers \ {r}
    /\ UNCHANGED <<buffers, frame_buffers, descriptors>>

FrameBufferNew ==
    \E f \in Handles \ frame_buffers :
      /\ BindCommit(frame_buffer_new(BindCtx, f), "frame_buffer_new", f)
      /\ frame_buffers' = frame_buffers \cup {f}
      /\ UNCHANGED <<buffers, render_buffers, descriptors>>

FrameBufferDrop(f) ==
    /\ f \in frame_buffers
    /\ BindCommit(frame_buffer_drop(BindCtx, f), "frame_buffer_drop", f)
    /\ frame_buffers' = frame_buffers \ {f}
    /\ UNCHANGED <<buffers, render_buffers, descriptors>>

\* GlesDrawDescriptor::new: with vertex arrays the driver hands out a name,
\* without them the id is the next value of the counter
DescriptorNew(shader, index, vertex) ==
    \E d \in Handles :
      /\ descriptors[d] = NoDescriptor
      /\ vertex_array_objects \/ d = draw_descriptor_cache.counter + 1
      /\ LET descriptor ==
               [shader |-> shader, index |-> index, vertex |-> vertex]
         IN  /\ BindCommit(descriptor_new(BindCtx, d, descriptor),
                           "descriptor_new", 0)
             /\ descriptors' = [descriptors EXCEPT ![d] = descriptor]
      /\ UNCHANGED <<buffers, render_buffers, frame_buffers>>

DescriptorDrop(d) ==
    /\ d \in LiveDescriptors
    /\ BindCommit(descriptor_drop(BindCtx, d), "descriptor_drop", 0)
    /\ descriptors' = [descriptors EXCEPT ![d] = NoDescriptor]
    /\ UNCHANGED <<buffers, render_buffers, frame_buffers>>

\* GlesFrameBuffer::draw
BindDraw(frame_buffer, d) ==
    /\ d \in LiveDescriptors
    /\ BindCommit(draw_bindings(BindCtx, frame_buffer, d), "draw",
                  frame_buffer)
    /\ UNCHANGED <<buffers, render_buffers, frame_buffers, descriptors>>

\* GlesFrameBuffer::clear
BindClear(frame_buffer) ==
    /\ BindCommit(bind_frame_buffer(BindCtx, frame_buffer), "clear",
                  frame_buffer)
    /\ UNCHANGED <<buffers, render_buffers, frame_buffers, descriptors>>

\* FrameBufferBlitter::blit
BindBlit(fb_write, fb_read) ==
    /\ BindCommit(blit_bindings(BindCtx, fb_write, fb_read), "blit", fb_write)
    /\ UNCHANGED <<buffers, render_buffers, frame_buffers, descriptors>>

BindNext ==
    \/ \E kind \in BufferKinds : BufferNew(kind)
    \/ \E b \in BufferHandles : BufferWrite(b)
    \/ \E b \in BufferHandles : BufferDrop(b)
    \/ RenderBufferNew
    \/ \E r \in Handles : RenderBufferDrop(r)
    \/ FrameBufferNew
    \/ \E f \in Handles : FrameBufferDrop(f)
    \/ \E shader \in Shaders, index \in {0} \cup LiveBuffers("Index"),
          vertex \in {0} \cup LiveBuffers("Vertex") :
            DescriptorNew(shader, index, vertex)
    \/ \E d \in Handles : DescriptorDrop(d)
    \/ \E frame_buffer \in Targets, d \in Handles : BindDraw(frame_buffer, d)
    \/ \E frame_buffer \in Targets : BindClear(frame_buffer)
    \/ \E fb_write \in Targets, fb_read \in frame_buffers :
          BindBlit(fb_write, fb_read)

(***************************************************************************)
(* The screen flipper (fake_default_framebuffer.rs): the framebuffer that  *)
(* stands for the default one while the image is drawn upside down, made   *)
(* again when the window changes size.  It is modelled as far as bindings  *)
(* go; its draw texture is bound on the driver only, on the unit after the *)
(* last unit of the mirror, so that the mirror never names it.             *)
(***************************************************************************)
\* the names the driver hands out for the framebuffer and the render buffer
\* of the flipper: one more than are alive at a time, so that a name can be
\* used again or not
FlipHandles == 1..(MaxHandles + 1)

\* the vertex buffer and the program of ScreenFlipper
FlipBuffer == MaxBuffers + 2

FlipProgram == Cardinality(Shaders) + 2

\* the sizes the window takes
WindowSizes == {[w |-> 1, h |-> 1], [w |-> 2, h |-> 1], FramebufferSize}

\* FakeFramebuffer::new, with the names the driver gave to the framebuffer
\* and to the render buffer
fake_framebuffer_new(c, framebuffer, depth_stencil) ==
    bind_frame_buffer(bind_render_buffer(c, depth_stencil), framebuffer)

\* FakeFramebuffer::destroy: the deletes are called on the driver itself
fake_framebuffer_destroy(c, fake) ==
    GlDeleteRenderbuffer(GlDeleteFramebuffer(c, fake.framebuffer),
                         fake.depth_stencil)

\* ScreenFlipper::new
screen_flipper_new(c, framebuffer, depth_stencil) ==
    use_program(
        bind_buffer(fake_framebuffer_new(c, framebuffer, depth_stencil),
                    "Vertex", FlipBuffer),
        FlipProgram)

\* ScreenFlipper::framebuffer: the context it leaves, given the names the
\* driver hands out if the framebuffer is made again
screen_flipper_framebuffer(c, fake, size, framebuffer, depth_stencil) ==
    IF size # fake.size
    THEN fake_framebuffer_new(fake_framebuffer_destroy(c, fake),
                              framebuffer, depth_stencil)
    ELSE c

\* ScreenFlipper::blit, as far as bindings go
screen_flipper_blit(c) ==
    LET a == use_program(bind_frame_buffer(c, 0), FlipProgram)
        b == IF vertex_array_objects THEN bind_vertex_array(a, 0) ELSE a
    IN  GlVertexAttribPointer(
            bind_buffer([b EXCEPT !.draw_descriptor_cache.current = 0],
                        "Vertex", FlipBuffer))

NoFlipper == [size |-> [w |-> 0, h |-> 0], framebuffer |-> 0,
              depth_stencil |-> 0]

NoFlipOp == [kind |-> "none", mirror_named |-> FALSE, driver_bound |-> FALSE]

\* the flipper while another part of the program is under study
FlipIdle ==
    /\ flipper = NoFlipper
    /\ flip_op = NoFlipOp

\* the state right after GlesContext::new with flip_default_frame_buffer
FlipInit ==
    /\ vertex_array_objects \in BOOLEAN
    /\ \E size \in WindowSizes, framebuffer \in FlipHandles,
          depth_stencil \in FlipHandles :
         /\ BindIs(screen_flipper_new(BindCtxNew, framebuffer, depth_stencil))
         /\ flipper = [size |-> size, framebuffer |-> framebuffer,
                       depth_stencil |-> depth_stencil]
    /\ NoObjects
    /\ bind_op = NoBindOp
    /\ flip_op = NoFlipOp

\* the mirror and the driver after an operation of the flipper that ended
\* in state c
FlipCommit(c) ==
    /\ bound_frame_buffer' = c.bound_frame_buffer
    /\ bound_render_buffer' = c.bound_render_buffer
    /\ bound_buffers' = c.bound_buffers
    /\ bound_vertex_array' = c.bound_vertex_array
    /\ bound_program' = c.bound_program
    /\ draw_descriptor_cache' = c.draw_descriptor_cache
    /\ gl_program' = c.gl_program
    /\ gl_bindings' = c.gl
    /\ UNCHANGED <<vertex_array_objects, buffers, render_buffers,
                   frame_buffers, descriptors, bind_op>>
    /\ UNCHANGED otherThanFlip

\* ScreenFlipper::framebuffer, called with the size of the window.  The
\* operation records whether the mirror named, and whether the driver had
\* bound, a framebuffer or render buffer at the time it was deleted.
FlipFramebuffer(size) ==
    \E framebuffer \in FlipHandles, depth_stencil \in FlipHandles :
      LET made == size # flipper.size
      IN  /\ made \/ (framebuffer = flipper.framebuffer
                      /\ depth_stencil = flipper.depth_stencil)
          /\ FlipCommit(screen_flipper_framebuffer(
                 BindCtx, flipper, size, framebuffer, depth_stencil))
          /\ flipper' = [size |-> size, framebuffer |-> framebuffer,
                         depth_stencil |-> depth_stencil]
          /\ flip_op' =
               [kind |-> IF made THEN "made" ELSE "kept",
                mirror_named |->
                  made /\ (\/ bound_frame_buffer = flipper.framebuffer
                           \/ bound_render_buffer = flipper.depth_stencil),
                driver_bound |->
                  made /\ (\/ gl_bindings.draw_frame_buffer
                                = flipper.framebuffer
                           \/ gl_bindings.render_buffer
                                = flipper.depth_stencil)]

\* ScreenFlipper::blit
FlipBlit ==
    /\ FlipCommit(screen_flipper_blit(BindCtx))
    /\ flip_op' = [NoFlipOp EXCEPT !.kind = "blit"]
    /\ UNCHANGED flipper

FlipNext ==
    \/ \E size \in WindowSizes : FlipFramebuffer(size)
    \/ FlipBlit

(***************************************************************************)
(* quad_index_buffer.rs, and the indices a batch of quads is drawn with    *)
(* (batch_renderer.rs BatchIndices::indices).                              *)
(***************************************************************************)
\* the index types that QuadIndexBuffer::new takes (Index + Into<usize>)
IndexKinds == {"U8", "U16"}

\* I::MAX
IndexMax(kind) == IF kind = "U8" THEN 255 ELSE 65535

\* the sizes QuadIndexBuffer::new is given
QuadSizes == 0..MaxQuadSize

\* the value that stands for the Err of a conversion
TryFromIntError == -1

\* usize -> I try_into: the value, or the error
TryInto(kind, j) == IF j <= IndexMax(kind) THEN j ELSE TryFromIntError

\* the six pushes of one turn of the loop of create_quad_indices
QuadPushes(kind, j) ==
    <<TryInto(kind, j), TryInto(kind, j + 1), TryInto(kind, j + 2),
      TryInto(kind, j), TryInto(kind, j + 2), TryInto(kind, j + 3)>>

\* the loop of create_quad_indices from turn `quad` on
RECURSIVE QuadLoop(_, _, _)
QuadLoop(kind, quad, quads) ==
    IF quad < quads
    THEN QuadPushes(kind, quad * 4) \o QuadLoop(kind, quad + 1, quads)
    ELSE <<>>

\* let quads = indices / 6, indices being the size given
QuadCount(size) == size \div 6

\* create_quad_indices::<I>(size): Ok(array), or the Err of the first
\* conversion that fails
create_quad_indices(kind, size) ==
    LET array == QuadLoop(kind, 0, QuadCount(size))
        ok == \A i \in DOMAIN array : array[i] # TryFromIntError
    IN  [ok |-> ok, array |-> IF ok THEN array ELSE <<>>]

NoQuadDraw == [vertices |-> 0, len |-> 0]

\* no quad index buffer is made
QuadIdle ==
    /\ quad_kind = "U16"
    /\ quad_size = 0
    /\ quad_state = "none"
    /\ quad_array = <<>>
    /\ quad_draw = NoQuadDraw

\* before QuadIndexBuffer::new::<I>(ctx, size)
QuadInit ==
    /\ quad_kind \in IndexKinds
    /\ quad_size \in QuadSizes
    /\ quad_state = "none"
    /\ quad_array = <<>>
    /\ quad_draw = NoQuadDraw

\* QuadIndexBuffer::new
QuadIndexBufferNew ==
    /\ quad_state = "none"
    /\ LET result == create_quad_indices(quad_kind, quad_size)
       IN  /\ quad_state' = IF result.ok THEN "made" ELSE "failed"
           /\ quad_array' = result.array
    /\ UNCHANGED <<quad_kind, quad_size, quad_draw>>
    /\ UNCHANGED otherThanQuad

\* a flush of a batch of quads: BatchIndices::indices(vertices) gives the
\* indices the draw reads from the buffer, from offset 0
QuadDraw(vertices) ==
    /\ quad_state = "made"
    /\ quad_draw' = [vertices |-> vertices,
                     len |-> BatchIndicesLen("Quad", vertices)]
    /\ UNCHANGED <<quad_kind, quad_size, quad_state, quad_array>>
    /\ UNCHANGED otherThanQuad

QuadNext ==
    \/ QuadIndexBufferNew
    \/ \E vertices \in 1..quad_size : QuadDraw(vertices)

(***************************************************************************)
(* The image FrameBufferBlitter::blit copies (frame_buffer_blitter.rs).    *)
(* A pixel is <<column, row>>, from 0, row 0 being the row of y = 0 of the *)
(* driver.  An image maps each pixel to the pixel of the first image it    *)
(* shows.  The framebuffer read and the one written have the same size,    *)
(* and the rectangle written is the whole framebuffer, as when the fake    *)
(* default framebuffer is copied onto the real one.                        *)
(***************************************************************************)
ImageSizes == {[w |-> w, h |-> h] : w \in 1..MaxImage, h \in 1..MaxImage}

Pixels(size) == (0..(size.w - 1)) \X (0..(size.h - 1))

FlipSources == {"None", "X", "Y", "XY"}

\* BlitSourceRect: FullFlipY, or Pixel(rect, flip) with the whole image as rect
BlitSourceRects ==
    {[kind |-> "FullFlipY", flip |-> "None"]}
      \cup {[kind |-> "Pixel", flip |-> flip] : flip \in FlipSources}

\* Rect::points
RectPoints(rect) ==
    <<<<rect.x, rect.y>>, <<rect.x, rect.y + rect.h>>,
      <<rect.x + rect.w, rect.y + rect.h>>, <<rect.x + rect.w, rect.y>>>>

\* From<Rect<T>> for Box2D<T>
BoxFromRect(rect) ==
    [a |-> <<rect.x, rect.y>>, b |-> <<rect.x + rect.w, rect.y + rect.h>>]

\* From<Size<T>> for Rect<T>
RectFromSize(size) == Rect(0, 0, size.w, size.h)

MutFullNoFlip(size) == <<<<0, 0>>, <<0, size.h>>, <<size.w, size.h>>, <<size.w, 0>>>>

\* [[0., 1.], [0., 0.], [1., 0.], [1., 1.]], in texels: a normalised
\* coordinate times the size of the texture sampled
FullFlipYTexCoords(size) ==
    <<<<0, size.h>>, <<0, 0>>, <<size.w, 0>>, <<size.w, size.h>>>>

\* the corners of an X flip given for a Y flip and the other way round
MutFlipXForY(rect, flip) ==
    LET src == RectPoints(rect)
    IN  CASE flip = "None" -> src
          [] flip = "Y" -> <<src[4], src[3], src[2], src[1]>>
          [] flip = "X" -> <<src[2], src[1], src[4], src[3]>>
          [] flip = "XY" -> <<src[3], src[4], src[1], src[2]>>

\* the tex_coords of the fallback path for BlitSourceRect::Pixel(rect,
\* flip), in texels (pt / size is the normalised coordinate)
PixelTexCoords(rect, flip) ==
    LET src == RectPoints(rect)
    IN  CASE flip = "None" -> src
          [] flip = "X" -> <<src[4], src[3], src[2], src[1]>>
          [] flip = "Y" -> <<src[2], src[1], src[4], src[3]>>
          [] flip = "XY" -> <<src[3], src[4], src[1], src[2]>>

\* the tex_coords of the fallback path of FrameBufferBlitter::blit when
\* the rectangle read is the whole framebuffer
TexCoords(source, size) ==
    IF source.kind = "FullFlipY" THEN FullFlipYTexCoords(size)
    ELSE PixelTexCoords(RectFromSize(size), source.flip)

\* the texel that the quad of FallbackFramebufferBlitter::blit shows at a
\* pixel of the viewport: the vertices of the triangle fan are the corners
\* (-1,-1), (-1,1), (1,1), (1,-1) of the viewport (uniform uv), tex_pos is
\* interpolated at the centre of the pixel, and the nearest texel is read
QuadTexel(tex_coords, viewport, pixel) ==
    LET a == 2 * pixel[1] + 1
        b == 2 * pixel[2] + 1
        dw == 2 * viewport.w
        dh == 2 * viewport.h
        at(k) == (dw - a) * (dh - b) * tex_coords[1][k]
                   + (dw - a) * b * tex_coords[2][k]
                   + a * b * tex_coords[3][k]
                   + a * (dh - b) * tex_coords[4][k]
    IN  <<at(1) \div (dw * dh), at(2) \div (dw * dh)>>

\* the arguments (x0, y0, x1, y1) of gl.blit_framebuffer on the native
\* path for BlitSourceRect::Pixel(rect, flip)
PixelBlitBox(rect, flip) ==
    LET src == BoxFromRect(rect)
    IN  CASE flip = "None" -> <<src.a[1], src.a[2], src.b[1], src.b[2]>>
          [] flip = "X" -> <<src.b[1], src.a[2], src.a[1], src.b[2]>>
          [] flip = "Y" -> <<src.a[1], src.b[2], src.b[1], src.a[2]>>
          [] flip = "XY" -> <<src.b[1], src.b[2], src.a[1], src.a[2]>>

\* the arguments (x0, y0, x1, y1) of gl.blit_framebuffer on the native
\* path when the rectangle read is the whole framebuffer
BlitBox(source, size) ==
    IF source.kind = "FullFlipY" THEN <<0, size.h, size.w, 0>>
    ELSE PixelBlitBox(RectFromSize(size), source.flip)

\* glBlitFramebuffer with the nearest filter: the pixel read for a pixel
\* written; the edges of the source box map onto those of the destination
GlBlitTexel(box, destination, pixel) ==
    LET along(s0, s1, d0, d1, p) ==
          (2 * s0 * (d1 - d0) + (2 * p + 1 - 2 * d0) * (s1 - s0))
            \div (2 * (d1 - d0))
    IN  <<along(box[1], box[3], destination.a[1], destination.b[1], pixel[1]),
          along(box[2], box[4], destination.a[2], destination.b[2], pixel[2])>>

\* FrameBufferBlitter::blit: the image written, given the image read
blit_image(image, source, size) ==
    LET destination == RectFromSize(size)
    IN  [pixel \in Pixels(size) |->
           image[IF blit_fallback
                 THEN QuadTexel(TexCoords(source, size), destination, pixel)
                 ELSE GlBlitTexel(BlitBox(source, size),
                                  BoxFromRect(destination), pixel)]]

\* nothing is copied
BlitImageIdle ==
    /\ blit_fallback = FALSE
    /\ blit_size = [w |-> 0, h |-> 0]
    /\ blit_images = <<>>
    /\ blit_sources = <<>>

\* an image in a framebuffer, before any blit
BlitImageInit ==
    /\ blit_fallback \in BOOLEAN
    /\ blit_size \in ImageSizes
    /\ blit_images = <<[pixel \in Pixels(blit_size) |-> pixel]>>
    /\ blit_sources = <<>>

\* FrameBufferBlitter::blit of the last image onto a framebuffer of the
\* same size
BlitImage(source) ==
    /\ Len(blit_sources) < MaxBlits
    /\ blit_images' =
         Append(blit_images,
                blit_image(blit_images[Len(blit_images)], source, blit_size))
    /\ blit_sources' = Append(blit_sources, source)
    /\ UNCHANGED <<blit_fallback, blit_size>>
    /\ UNCHANGED otherThanBlitImage

BlitImageNext == \E source \in BlitSourceRects : BlitImage(source)

(***************************************************************************)
(* Writes to buffers: Buffer::write and ByteBuffer::write of               *)
(* yapgeir_graphics_hal/src/buffer.rs and GlesBuffer of                    *)
(* yapgeir_graphics_hal_gles2/src/buffer.rs.  usize is scaled down to      *)
(* 0..MaxUsize; its arithmetic panics on overflow in a build with overflow *)
(* checks and wraps in one without.                                        *)
(***************************************************************************)
\* the build, where the arithmetic of the operations under study never
\* overflows
BuildIdle == overflow_checks = FALSE

\* the build is one with overflow checks (the dev profile) or one without
\* (the release profile)
BuildInit == overflow_checks \in BOOLEAN

Usize == 0..MaxUsize

\* the lengths in bytes that buffers are made with
BufferLens == 0..MaxBufferLen

\* size_of::<T>() of the element types written
ElementSizes == {1, 2}

\* the value of the bytes written; 0 is the byte of a new buffer
ByteValues == {1}

\* a + b and a * b in usize: the wrapped value, and whether it overflowed
UsizeAdd(a, b) ==
    [value |-> (a + b) % (MaxUsize + 1), overflow |-> a + b > MaxUsize]

UsizeMul(a, b) ==
    [value |-> (a * b) % (MaxUsize + 1), overflow |-> a * b > MaxUsize]

\* `offset as i32`: the upper half of the values is negative
AsI32(offset) ==
    IF offset > MaxUsize \div 2 THEN offset - (MaxUsize + 1) ELSE offset

\* glBufferSubData: INVALID_VALUE, and nothing written, unless the range
\* lies in the data store of the buffer
GlBufferSubData(bytes, offset, data) ==
    IF offset >= 0 /\ offset + Len(data) <= Len(bytes)
    THEN [i \in 1..Len(bytes) |->
            IF i > offset /\ i <= offset + Len(data)
            THEN data[i - offset] ELSE bytes[i]]
    ELSE bytes

\* offset + data.len() <= self.len
WriteInBounds(sum, len) == sum <= len

\* GlesBuffer::write, as far as the buffer goes: whether it panics, the
\* driver calls it issues and the bytes it leaves
gles_buffer_write(len, bytes, offset, data) ==
    LET sum == UsizeAdd(offset, Len(data))
    IN  IF (overflow_checks /\ sum.overflow) \/ ~WriteInBounds(sum.value, len)
        THEN [panicked |-> TRUE, calls |-> 0, bytes |-> bytes]
        ELSE [panicked |-> FALSE, calls |-> 1,
              bytes |-> GlBufferSubData(bytes, AsI32(offset), data)]

\* Buffer::<T>::write(offset, data), data having `count` elements of
\* `size` bytes of value `value`
typed_buffer_write(len, bytes, size, offset, count, value) ==
    LET byte_offset == UsizeMul(offset, size)
    IN  IF overflow_checks /\ byte_offset.overflow
        THEN [panicked |-> TRUE, calls |-> 0, bytes |-> bytes]
        ELSE gles_buffer_write(len, bytes, byte_offset.value,
                               [i \in 1..(count * size) |-> value])

\* what is recorded of a write: whether it reached past the end of the
\* buffer, and what it did
NoWriteOp ==
    [kind |-> "none", exceeds |-> FALSE, panicked |-> FALSE, calls |-> 0,
     bytes_changed |-> FALSE, mirror_changed |-> FALSE]

\* no buffer has been given a length
ByteBufferIdle ==
    /\ buffer_lens = [b \in BufferHandles |-> 0]
    /\ buffer_bytes = [b \in BufferHandles |-> <<>>]
    /\ write_op = NoWriteOp

\* a new context
ByteBufferInit ==
    /\ buffer_lens = [b \in BufferHandles |-> 0]
    /\ buffer_bytes = [b \in BufferHandles |-> <<>>]
    /\ write_op = NoWriteOp
    /\ BindInit

\* the mirror and the driver after an operation that ended in state c
ByteBufferCommit(c) ==
    /\ bound_frame_buffer' = c.bound_frame_buffer
    /\ bound_render_buffer' = c.bound_render_buffer
    /\ bound_buffers' = c.bound_buffers
    /\ bound_vertex_array' = c.bound_vertex_array
    /\ bound_program' = c.bound_program
    /\ draw_descriptor_cache' = c.draw_descriptor_cache
    /\ gl_program' = c.gl_program
    /\ gl_bindings' = c.gl
    /\ UNCHANGED <<vertex_array_objects, render_buffers, frame_buffers,
                   descriptors, bind_op>>
    /\ UNCHANGED otherThanByteBuffer

\* GlesBuffer::new with BufferData::Empty(len)
ByteBufferNew(kind, len) ==
    \E b \in BufferHandles :
      /\ buffers[b] = "none"
      /\ ByteBufferCommit(buffer_new(BindCtx, kind, b))
      /\ buffers' = [buffers EXCEPT ![b] = kind]
      /\ buffer_lens' = [buffer_lens EXCEPT ![b] = len]
      /\ buffer_bytes' = [buffer_bytes EXCEPT ![b] = [i \in 1..len |-> 0]]
      /\ write_op' = NoWriteOp

\* Drop for GlesBuffer
ByteBufferDrop(b) ==
    /\ buffers[b] # "none"
    /\ ByteBufferCommit(buffer_drop(BindCtx, buffers[b], b))
    /\ buffers' = [buffers EXCEPT ![b] = "none"]
    /\ buffer_lens' = [buffer_lens EXCEPT ![b] = 0]
    /\ buffer_bytes' = [buffer_bytes EXCEPT ![b] = <<>>]
    /\ write_op' = NoWriteOp

\* Buffer::<T>::write; with size 1 it is ByteBuffer::write.  A write that
\* panics changes nothing but the record of the write.
ByteBufferWrite(b, size, offset, count, value) ==
    /\ buffers[b] # "none"
    /\ LET result == typed_buffer_write(buffer_lens[b], buffer_bytes[b],
                                        size, offset, count, value)
           c == IF result.panicked THEN BindCtx
                ELSE buffer_write(BindCtx, buffers[b], b)
       IN  /\ ByteBufferCommit(c)
           /\ buffer_bytes' = [buffer_bytes EXCEPT ![b] = result.bytes]
           /\ write_op' =
                [kind |-> "write",
                 exceeds |-> (offset + count) * size > buffer_lens[b],
                 panicked |-> result.panicked, calls |-> result.calls,
                 bytes_changed |-> result.bytes # buffer_bytes[b],
                 mirror_changed |->
                   \/ c.bound_buffers # bound_buffers
                   \/ c.bound_vertex_array # bound_vertex_array]
    /\ UNCHANGED <<buffers, buffer_lens>>

ByteBufferNext ==
    \/ \E kind \in BufferKinds, len \in BufferLens : ByteBufferNew(kind, len)
    \/ \E b \in BufferHandles : ByteBufferDrop(b)
    \/ \E b \in BufferHandles, size \in ElementSizes, offset \in Usize,
          count \in 0..MaxBufferLen, value \in ByteValues :
         /\ count * size <= MaxUsize
         /\ ByteBufferWrite(b, size, offset, count, value)

(***************************************************************************)
(* The pixel data of a texture: GlesTexture::new, write and write_rect of  *)
(* texture.rs, as far as the assertions and the upload go.  u32 is scaled  *)
(* down to 0..MaxU32; usize is wide enough for every product below.        *)
(***************************************************************************)
\* GlesPixelFormat
GlesPixelFormats ==
    {[channels |-> c, layout |-> "U8"] :
        c \in {"Alpha", "Lumi", "Lumia", "Rgb", "Rgba"}}
      \cup {[channels |-> "Rgb", layout |-> "U16_5_6_5"],
            [channels |-> "Rgba", layout |-> "U16_4_4_4_4"],
            [channels |-> "Rgba", layout |-> "U16_5_5_5_1"]}

\* GlesPixelFormat::stride
stride(format) ==
    CASE format.channels \in {"Alpha", "Lumi"} -> 1
      [] format.channels = "Lumia" -> 2
      [] format.channels = "Rgb" -> IF format.layout = "U8" THEN 3 ELSE 2
      [] format.channels = "Rgba" -> IF format.layout = "U8" THEN 4 ELSE 2

\* GlesPixelFormat::gl: the format and the type handed to the driver
gl(format) ==
    <<CASE format.channels = "Alpha" -> "ALPHA"
        [] format.channels = "Lumi" -> "LUMINANCE"
        [] format.channels = "Lumia" -> "LUMINANCE_ALPHA"
        [] format.channels = "Rgb" -> "RGB"
        [] format.channels = "Rgba" -> "RGBA",
      CASE format.layout = "U8" -> "UNSIGNED_BYTE"
        [] format.layout = "U16_5_6_5" -> "UNSIGNED_SHORT_5_6_5"
        [] format.layout = "U16_4_4_4_4" -> "UNSIGNED_SHORT_4_4_4_4"
        [] format.layout = "U16_5_5_5_1" -> "UNSIGNED_SHORT_5_5_5_1">>

\* the widths and heights of images and rectangles
U32 == 0..MaxU32

\* the lengths of the byte slices handed over
SliceLens == 0..MaxSliceLen

\* w * h in u32: the wrapped value, and whether it overflowed
U32Mul(a, b) ==
    [value |-> (a * b) % (MaxU32 + 1), overflow |-> a * b > MaxU32]

\* assert_eq!(bytes.len(), (size.w * size.h) as usize * stride): whether
\* the assertion, or the multiplication in a build with overflow checks,
\* panics
LengthPanics(len, w, h, format) ==
    LET area == U32Mul(w, h)
    IN  \/ overflow_checks /\ area.overflow
        \/ len # area.value * stride(format)

\* assert_eq!(format, self.format.gl().0, "format must not change")
FormatPanics(format, texture_format) == gl(format)[1] # gl(texture_format)[1]

\* GlesTexture::new: whether it panics; bytes is the length of the slice,
\* or None
texture_new(format, w, h, bytes) ==
    bytes # None /\ LengthPanics(bytes[1], w, h, format)

\* GlesTexture::write and GlesTexture::write_rect: whether they panic
texture_write(texture_format, format, w, h, len) ==
    FormatPanics(format, texture_format) \/ LengthPanics(len, w, h, format)

\* what is recorded of an operation: whether a slice was given, whether its
\* length was width * height * stride, whether the format given was that
\* of the texture, whether the operation panicked, and the uploads issued
TexOp(kind, given, len, w, h, format, texture_format, failed) ==
    [kind |-> kind,
     given |-> given,
     length_matches |-> len = w * h * stride(format),
     same_format |-> format = texture_format,
     panicked |-> failed,
     uploads |-> IF failed THEN 0 ELSE 1]

NoTexOp ==
    [kind |-> "none", given |-> FALSE, length_matches |-> FALSE,
     same_format |-> FALSE, panicked |-> FALSE, uploads |-> 0]

NoFormat == [channels |-> "none", layout |-> "none"]

\* no texture is written
TexDataIdle ==
    /\ tex_state = "none"
    /\ tex_format = NoFormat
    /\ tex_gl_format = <<"none", "none">>
    /\ tex_op = NoTexOp

\* before GlesTexture::new
TexDataInit == TexDataIdle

\* GlesTexture::new; a texture whose constructor panics does not exist
TexDataNew(format, w, h, bytes) ==
    /\ tex_state = "none"
    /\ LET failed == texture_new(format, w, h, bytes)
       IN  /\ tex_op' = TexOp("new", bytes # None,
                              IF bytes = None THEN 0 ELSE bytes[1],
                              w, h, format, format, failed)
           /\ IF failed
              THEN UNCHANGED <<tex_state, tex_format, tex_gl_format>>
              ELSE /\ tex_state' = "alive"
                   /\ tex_format' = format
                   /\ tex_gl_format' = gl(format)
    /\ UNCHANGED otherThanTexData

\* GlesTexture::write (kind "write", the size being that of the image) and
\* GlesTexture::write_rect (kind "write_rect", the size that of the rect)
TexDataWrite(kind, format, w, h, len) ==
    /\ tex_state = "alive"
    /\ LET failed == texture_write(tex_format, format, w, h, len)
       IN  /\ tex_op' = TexOp(kind, TRUE, len, w, h, format, tex_format,
                              failed)
           /\ tex_gl_format' = IF failed THEN tex_gl_format ELSE gl(format)
    /\ UNCHANGED <<tex_state, tex_format>>
    /\ UNCHANGED otherThanTexData

\* Drop for GlesTexture
TexDataDrop ==
    /\ tex_state = "alive"
    /\ tex_state' = "none"
    /\ tex_format' = NoFormat
    /\ tex_gl_format' = <<"none", "none">>
    /\ tex_op' = NoTexOp
    /\ UNCHANGED otherThanTexData

TexDataNext ==
    \/ \E format \in GlesPixelFormats, w \in U32, h \in U32,
          bytes \in Options(SliceLens) : TexDataNew(format, w, h, bytes)
    \/ \E kind \in {"write", "write_rect"}, format \in GlesPixelFormats,
          w \in U32, h \in U32, len \in SliceLens :
         TexDataWrite(kind, format, w, h, len)
    \/ TexDataDrop

(***************************************************************************)
(* Animations: Animation of yapgeir_assets, and Animator, next_frame and   *)
(* the update system of yapgeir_world_2d_sprites/src/animation.rs, for one *)
(* entity.  Time is counted in hundredths of a second: frame_time 0.1 is   *)
(* FrameTime = 10 and Delta 0.04 is 4; the rounding of f32 is left out.    *)
(***************************************************************************)
AnimationKinds == {"Loop", "PingPong", "Single"}

\* Animation::frames.len() of the animations in the store
FrameCounts == 1..MaxFrames

\* the values of Delta fed to the update system
Deltas == {4, 12}

\* an Animation: its frames are the Drawables 0 .. frames - 1
Animation(frames, kind, frame_time) ==
    [frames |-> frames, kind |-> kind, frame_time |-> frame_time]

\* the keys of the sequences in the store
AnimationSequenceKeys == {1, 2}

\* Animation::is_last_frame
is_last_frame(animation, frame) == animation.frames - 1 <= frame

\* an animation of any kind taken to end at its last frame
MutEndOfAnyKind(animation, frame) == is_last_frame(animation, frame)

\* Animation::is_end
is_end(animation, frame) ==
    is_last_frame(animation, frame) /\ animation.kind = "Single"

\* AnimationStorage::is_last_in_sequence
is_last_in_sequence(key) == Len(store[key.sequence]) <= key.index + 1

\* Index<AnimationKey> for AnimationStorage
StoreAt(key) == store[key.sequence][key.index + 1]

AnimationKey(sequence, index) == [sequence |-> sequence, index |-> index]

\* Frame and Frame::default()
Frame(index, reversed) == [index |-> index, reversed |-> reversed]

FrameDefault == Frame(0, FALSE)

\* FrameState
Started == [state |-> "Started"]

Ended == [state |-> "Ended"]

FrameOf(frame) == [state |-> "Frame", frame |-> frame]

\* a walk that turns round at the last frame only
MutReversedAtLast(last, frame) == last

\* the reversed flag next_frame computes for a PingPong animation
PingPongReversed(last, frame) == last \/ (frame.reversed /\ frame.index > 0)

\* next_frame; an index below 0 is the u8 subtraction 0 - 1
next_frame(animation, frame) ==
    LET last == is_last_frame(animation, frame.index)
    IN  CASE animation.kind = "Loop" ->
               Frame(IF last THEN 0 ELSE frame.index + 1, FALSE)
          [] animation.kind = "PingPong" ->
               LET reversed == PingPongReversed(last, frame)
               IN  Frame(IF reversed THEN frame.index - 1
                                     ELSE frame.index + 1, reversed)
          [] animation.kind = "Single" -> Frame(frame.index + 1, FALSE)

\* an accumulator that starts again from zero at every frame
MutRolloverReset(elapsed, frame_time) == 0

\* a.elapsed -= animation.frame_time
Rollover(elapsed, frame_time) == elapsed - frame_time

\* Animator::new
AnimatorNew(sequence) ==
    [animation |-> AnimationKey(sequence, 0), next_sequence |-> None,
     elapsed |-> 0, frame |-> Started]

\* a request that is applied at once, as by play_now
MutDeferredAtOnce(a, sequence) ==
    IF a.animation.sequence # sequence
    THEN [a EXCEPT !.animation = AnimationKey(sequence, 0),
                   !.frame = Started, !.elapsed = 0]
    ELSE a

\* Animator::play_deferred
play_deferred(a, sequence) ==
    IF a.animation.sequence # sequence
    THEN [a EXCEPT !.next_sequence = Some(sequence)]
    ELSE a

\* Animator::play_now
play_now(a, sequence) ==
    IF a.animation.sequence # sequence
    THEN [a EXCEPT !.animation = AnimationKey(sequence, 0),
                   !.frame = Started, !.elapsed = 0]
    ELSE a

\* The body of the loop of update for one entity, up to the match: the
\* animator after the match and the frame it yields, or "continue".  The
\* next_sequence is taken (mem::take) before the match.
UpdateMatch(a, delta) ==
    LET next  == a.next_sequence
        taken == [a EXCEPT !.next_sequence = None]
    IN  IF a.frame.state = "Ended" /\ next = None
        THEN [continue |-> TRUE, a |-> taken, advanced |-> FALSE]
        ELSE IF a.frame.state = "Started" /\ next = None
        THEN [continue |-> FALSE, a |-> taken, frame |-> FrameDefault,
              advanced |-> FALSE]
        ELSE IF a.frame.state \in {"Started", "Ended"}
        THEN [continue |-> FALSE, a |-> play_now(taken, next[1]),
              frame |-> FrameDefault, advanced |-> FALSE]
        ELSE
          LET animation == StoreAt(a.animation)
              added     == [taken EXCEPT !.elapsed = a.elapsed + delta]
              rolled    == [added EXCEPT !.elapsed =
                              Rollover(added.elapsed, animation.frame_time)]
          IN  IF added.elapsed < animation.frame_time
              THEN [continue |-> TRUE,
                    a |-> [added EXCEPT !.next_sequence = next],
                    advanced |-> FALSE]
              ELSE IF next # None
              THEN [continue |-> FALSE, a |-> play_now(rolled, next[1]),
                    frame |-> FrameDefault, advanced |-> FALSE]
              ELSE IF is_end(animation, a.frame.frame.index)
              THEN IF is_last_in_sequence(a.animation)
                   THEN [continue |-> TRUE,
                         a |-> [rolled EXCEPT !.frame = Ended],
                         advanced |-> FALSE]
                   ELSE [continue |-> FALSE,
                         a |-> [rolled EXCEPT
                                  !.frame = Started,
                                  !.animation.index = a.animation.index + 1],
                         frame |-> FrameDefault, advanced |-> FALSE]
              ELSE [continue |-> FALSE, a |-> rolled,
                    frame |-> next_frame(animation, a.frame.frame),
                    advanced |-> TRUE]

NoAnimOp ==
    [kind |-> "none", delta |-> 0, before |-> 0, after |-> 0,
     advanced |-> FALSE, from |-> 0, to |-> 0, moved |-> FALSE,
     ended |-> FALSE, shown_for |-> 0, single_last |-> FALSE,
     pending |-> FALSE, last_in_sequence |-> FALSE, from_ended |-> FALSE,
     same |-> FALSE]

\* what an update did, given the result of its match: whether it moved on
\* to the next animation of the sequence or ended the sequence, what the
\* Animator held before and for how long the Drawable had been showing
AnimOp(delta, m, advanced, from, to) ==
    [kind |-> "update", delta |-> delta, before |-> animator.elapsed,
     after |-> m.a.elapsed, advanced |-> advanced, from |-> from, to |-> to,
     moved |-> /\ m.a.animation.sequence = animator.animation.sequence
               /\ m.a.animation.index = animator.animation.index + 1,
     ended |-> m.a.frame = Ended /\ animator.frame # Ended,
     shown_for |-> anim_age + delta,
     single_last |-> /\ animator.frame.state = "Frame"
                     /\ StoreAt(animator.animation).kind = "Single"
                     /\ is_last_frame(StoreAt(animator.animation),
                                      animator.frame.frame.index),
     pending |-> animator.next_sequence # None,
     last_in_sequence |-> is_last_in_sequence(animator.animation),
     from_ended |-> animator.frame = Ended /\ animator.next_sequence = None,
     same |-> m.continue /\ m.a = animator]

AnimIdle ==
    /\ store = [k \in AnimationSequenceKeys |->
                  <<Animation(1, "Single", FrameTime)>>]
    /\ animator = AnimatorNew(1)
    /\ drawable = [animation |-> AnimationKey(1, 0), frame |-> 0]
    /\ anim_shown = <<>>
    /\ anim_deltas = <<>>
    /\ anim_updates = 0
    /\ anim_played = FALSE
    /\ anim_op = NoAnimOp
    /\ anim_age = 0
    /\ anim_panicked = FALSE

\* Sequence 1 holds one animation of any kind and length, sequence 2 a
\* Single animation followed by a Loop; the entity has an Animator made
\* for sequence 1 and the Drawable DrawableAdder gave it (frames[0]).
AnimInit ==
    /\ \E frames \in FrameCounts, kind \in AnimationKinds :
         store = [k \in AnimationSequenceKeys |->
                    IF k = 1
                    THEN <<Animation(frames, kind, FrameTime)>>
                    ELSE <<Animation(2, "Single", FrameTime),
                           Animation(2, "Loop", FrameTime)>>]
    /\ animator = AnimatorNew(1)
    /\ drawable = [animation |-> AnimationKey(1, 0), frame |-> 0]
    /\ anim_shown = <<>>
    /\ anim_deltas = <<>>
    /\ anim_updates = 0
    /\ anim_played = FALSE
    /\ anim_op = NoAnimOp
    /\ anim_age = 0
    /\ anim_panicked = FALSE

\* update (animation.rs:182-233), for the one entity.  The frame index is
\* a u8: frame.index - 1 at index 0 panics where overflow is checked and
\* wraps to 255 elsewhere, and frames[255] then panics at the indexing.
AnimUpdate(delta) ==
    /\ ~anim_panicked
    /\ anim_updates < MaxUpdates
    /\ animator.elapsed + delta <= MaxElapsed
    /\ LET m == UpdateMatch(animator, delta)
       IN  /\ anim_updates' = anim_updates + 1
           /\ anim_deltas' = IF Len(anim_deltas) < MaxDeltas
                             THEN Append(anim_deltas, delta)
                             ELSE anim_deltas
           /\ IF m.continue
              THEN /\ animator' = m.a
                   /\ anim_op' = AnimOp(delta, m, FALSE, 0, 0)
                   /\ anim_age' = anim_age + delta
                   /\ UNCHANGED <<drawable, anim_shown, anim_panicked>>
              ELSE IF m.frame.index \notin
                        0..(StoreAt(m.a.animation).frames - 1)
              THEN /\ anim_panicked' = TRUE
                   /\ anim_op' = [NoAnimOp EXCEPT !.kind = "panic"]
                   /\ UNCHANGED <<animator, drawable, anim_shown, anim_age>>
              ELSE /\ animator' = [m.a EXCEPT !.frame = FrameOf(m.frame)]
                   /\ drawable' = [animation |-> m.a.animation,
                                   frame |-> m.frame.index]
                   /\ anim_shown' = Append(anim_shown, m.frame.index)
                   /\ anim_op' =
                        AnimOp(delta, m, m.advanced,
                               IF m.advanced
                               THEN animator.frame.frame.index ELSE 0,
                               m.frame.index)
                   /\ anim_age' = 0
                   /\ UNCHANGED anim_panicked
    /\ UNCHANGED <<store, anim_played>>
    /\ UNCHANGED otherThanAnim

AnimPlayDeferred(sequence) ==
    /\ ~anim_panicked
    /\ animator' = play_deferred(animator, sequence)
    /\ animator' # animator
    /\ anim_played' = TRUE
    /\ anim_op' = [NoAnimOp EXCEPT !.kind = "play_deferred"]
    /\ UNCHANGED <<store, drawable, anim_shown, anim_deltas, anim_updates,
                   anim_age, anim_panicked>>
    /\ UNCHANGED otherThanAnim

AnimPlayNow(sequence) ==
    /\ ~anim_panicked
    /\ animator' = play_now(animator, sequence)
    /\ animator' # animator
    /\ anim_played' = TRUE
    /\ anim_op' = [NoAnimOp EXCEPT !.kind = "play_now"]
    /\ UNCHANGED <<store, drawable, anim_shown, anim_deltas, anim_updates,
                   anim_age, anim_panicked>>
    /\ UNCHANGED otherThanAnim

AnimNext ==
    \/ \E delta \in Deltas : AnimUpdate(delta)
    \/ \E sequence \in AnimationSequenceKeys : AnimPlayDeferred(sequence)
    \/ \E sequence \in AnimationSequenceKeys : AnimPlayNow(sequence)

(***************************************************************************)
(* Texture regions: TextureRegion::to_texel_quad of sprite_renderer.rs,    *)
(* with Rect::points, Box2D::points and From<Rect> for Box2D of            *)
(* yapgeir_geometry.  An f32 is a binary floating point number with a      *)
(* significand of 24 bits; here it has MantissaBits bits, and is kept as   *)
(* the fraction in lowest terms it stands for.  Every operation rounds its *)
(* exact result to the nearest such number, ties to the even significand.  *)
(* Exponents are not bounded: nothing here comes near their limits.        *)
(***************************************************************************)
\* the shifts tried to bring a value into the range of the significand
MaxShift == MantissaBits + MaxTexSize

RECURSIVE GCD(_, _)
GCD(a, b) == IF b = 0 THEN a ELSE GCD(b, a % b)

\* the fraction n / d in lowest terms
Q(n, d) == LET g == GCD(n, d) IN [n |-> n \div g, d |-> d \div g]

\* round n / d, below 2^MantissaBits, to the nearest f32
Fl(n, d) ==
    IF n = 0 THEN Q(0, 1)
    ELSE LET k == CHOOSE k \in 0..MaxShift :
                    /\ 2^(MantissaBits - 1) * d <= n * 2^k
                    /\ n * 2^k < 2^MantissaBits * d
             q == (n * 2^k) \div d
             r == (n * 2^k) % d
             m == IF 2 * r > d \/ (2 * r = d /\ q % 2 = 1) THEN q + 1 ELSE q
         IN  Q(m, 2^k)

\* `v as f32` of a u32
AsF32(v) == Fl(v, 1)

\* a / b and a + b of f32
F32Div(a, b) == Fl(a.n * b.d, a.d * b.n)

F32Add(a, b) == Fl(a.n * b.d + b.n * a.d, a.d * b.d)

\* Rect<f32>::points
RectF32Points(rect) ==
    <<<<rect.x, rect.y>>,
      <<rect.x, F32Add(rect.y, rect.h)>>,
      <<F32Add(rect.x, rect.w), F32Add(rect.y, rect.h)>>,
      <<F32Add(rect.x, rect.w), rect.y>>>>

\* the corners of a box, from a to b the other way round
MutBoxPointsAcross(box) ==
    <<<<box.a[1], box.a[2]>>, <<box.b[1], box.a[2]>>,
      <<box.b[1], box.b[2]>>, <<box.a[1], box.b[2]>>>>

\* Box2D::points
Box2DPoints(box) ==
    <<<<box.a[1], box.a[2]>>, <<box.a[1], box.b[2]>>,
      <<box.b[1], box.b[2]>>, <<box.b[1], box.a[2]>>>>

\* From<Rect<f32>> for Box2D<f32>
Box2DFromRectF32(rect) ==
    [a |-> <<rect.x, rect.y>>,
     b |-> <<F32Add(rect.x, rect.w), F32Add(rect.y, rect.h)>>]

\* TextureRegion::to_texel_quad
to_texel_quad(region, texture_size) ==
    CASE region.kind = "Full" ->
           RectF32Points(Rect(AsF32(0), AsF32(0), AsF32(1), AsF32(1)))
      [] region.kind = "TexelsBox2D" -> Box2DPoints(region.value)
      [] region.kind \in {"Texels", "TexelsRect"} ->
           RectF32Points(region.value)
      [] region.kind = "Pixels" ->
           RectF32Points(
               Rect(F32Div(AsF32(region.value.x), AsF32(texture_size.w)),
                    F32Div(AsF32(region.value.y), AsF32(texture_size.h)),
                    F32Div(AsF32(region.value.w), AsF32(texture_size.w)),
                    F32Div(AsF32(region.value.h), AsF32(texture_size.h))))

\* the rectangle in pixels as a Rect<f32> in texture space, every member
\* divided by the size in f32
NormalizedRect(pixels, size) ==
    Rect(F32Div(AsF32(pixels.x), AsF32(size.w)),
         F32Div(AsF32(pixels.y), AsF32(size.h)),
         F32Div(AsF32(pixels.w), AsF32(size.w)),
         F32Div(AsF32(pixels.h), AsF32(size.h)))

\* the rectangle in pixels as a Box2D<f32> in texture space, every corner
\* divided by the size in f32
NormalizedBox(pixels, size) ==
    [a |-> <<F32Div(AsF32(pixels.x), AsF32(size.w)),
             F32Div(AsF32(pixels.y), AsF32(size.h))>>,
     b |-> <<F32Div(AsF32(pixels.x + pixels.w), AsF32(size.w)),
             F32Div(AsF32(pixels.y + pixels.h), AsF32(size.h))>>]

\* The ways of handing the region to a sprite draw: TextureRegion::Full for
\* the whole texture, Pixels, Texels and TexelsRect of the normalized
\* rectangle, and TexelsBox2D of the normalized corners or of the
\* normalized rectangle converted with Box2D::from.
RegionWays ==
    {"Full", "Pixels", "Texels", "TexelsRect", "TexelsBox2D", "BoxFromRect"}

TextureRegionOf(way, pixels, size) ==
    CASE way = "Full" -> [kind |-> "Full"]
      [] way = "Pixels" -> [kind |-> "Pixels", value |-> pixels]
      [] way \in {"Texels", "TexelsRect"} ->
           [kind |-> way, value |-> NormalizedRect(pixels, size)]
      [] way = "TexelsBox2D" ->
           [kind |-> "TexelsBox2D", value |-> NormalizedBox(pixels, size)]
      [] way = "BoxFromRect" ->
           [kind |-> "TexelsBox2D",
            value |-> Box2DFromRectF32(NormalizedRect(pixels, size))]

NoQuad == <<>>

TextureSizes == {[w |-> w, h |-> h] : w \in 1..MaxTexSize, h \in 1..MaxTexSize}

\* the rectangles of whole pixels inside a texture
PixelRects(size) ==
    {r \in [x : 0..size.w, y : 0..size.h, w : 0..size.w, h : 0..size.h] :
       r.x + r.w <= size.w /\ r.y + r.h <= size.h}

TexelIdle ==
    /\ region_size = [w |-> 1, h |-> 1]
    /\ region_pixels = Rect(0, 0, 0, 0)
    /\ texel_quads = [way \in RegionWays |-> NoQuad]

TexelInit ==
    /\ region_size \in TextureSizes
    /\ region_pixels \in PixelRects(region_size)
    /\ texel_quads = [way \in RegionWays |-> NoQuad]

\* a sprite is drawn with the region handed over in one of the ways
TexelQuad(way) ==
    /\ texel_quads[way] = NoQuad
    /\ way = "Full" => region_pixels = RectFromSize(region_size)
    /\ texel_quads' =
         [texel_quads EXCEPT ![way] =
            to_texel_quad(TextureRegionOf(way, region_pixels, region_size),
                          region_size)]
    /\ UNCHANGED <<region_size, region_pixels>>
    /\ UNCHANGED otherThanTexel

TexelNext == \E way \in RegionWays : TexelQuad(way)

(***************************************************************************)
(* PersistentSlotMap of yapgeir_collections: Default and insert.  A Slot   *)
(* is its index; slots[i] here is slots[i - 1] there.                      *)
(***************************************************************************)
SlotKeys == 1..MaxKeys

SlotValues == 1..MaxValues

\* HashMap::get: the slot of a key present, None otherwise
KeyToSlotGet(map, key) ==
    IF key \in DOMAIN map THEN Some(map[key]) ELSE None

\* an insert that takes the first index for every new key
MutFirstIndex(values) == 0

\* let index = self.slots.len()
VacantIndex(values) == Len(values)

\* PersistentSlotMap::insert: the map after it and the Slot returned
insert(map, key, value) ==
    LET found == KeyToSlotGet(map.key_to_slot, key)
    IN  IF found # None
        THEN [map  |-> [map EXCEPT !.slots[found[1] + 1] = value],
              slot |-> found[1]]
        ELSE LET index == VacantIndex(map.slots)
             IN  [map  |-> [slots |-> Append(map.slots, value),
                            key_to_slot |->
                              [k \in DOMAIN map.key_to_slot \cup {key} |->
                                 IF k = key THEN index
                                 ELSE map.key_to_slot[k]]],
                  slot |-> index]

\* Index<Slot> for PersistentSlotMap; get returns None where this panics
SlotMapIndex(values, slot) == values[slot + 1]

SlotValid(values, slot) == slot + 1 \in DOMAIN values

NoSlotOp == [kind |-> "none", key |-> 0, value |-> 0, slot |-> 0,
             present |-> FALSE, previous |-> 0]

\* Default for PersistentSlotMap
SlotMapIdle ==
    /\ slots = <<>>
    /\ key_to_slot = <<>>
    /\ slot_returned = [k \in SlotKeys |-> {}]
    /\ slot_latest = [k \in SlotKeys |-> 0]
    /\ slot_op = NoSlotOp

SlotMapInit == SlotMapIdle

SlotMapInsert(key, value) ==
    /\ LET result == insert([slots |-> slots, key_to_slot |-> key_to_slot],
                            key, value)
       IN  /\ slots' = result.map.slots
           /\ key_to_slot' = result.map.key_to_slot
           /\ slot_returned' =
                [slot_returned EXCEPT ![key] = @ \cup {result.slot}]
           /\ slot_latest' = [slot_latest EXCEPT ![key] = value]
           /\ slot_op' = [kind |-> "insert", key |-> key, value |-> value,
                          slot |-> result.slot,
                          present |-> slot_returned[key] # {},
                          previous |-> slot_latest[key]]
    /\ UNCHANGED otherThanSlotMap

SlotMapNext ==
    \E key \in SlotKeys, value \in SlotValues : SlotMapInsert(key, value)

(***************************************************************************)
(* SystemRunner of yapgeir_realm/src/systems/mod.rs: push, remove and run. *)
(* A system is known by what it does to the Exit resource; every system    *)
(* reads the message resource and appends its own index to it.  A run is   *)
(* one step for its entry, one for every system called and one for its     *)
(* return.                                                                 *)
(***************************************************************************)
\* what a system does to Exit: nothing, insert Exit(true), or set the Exit
\* present to false
SystemKinds == {"keep", "set", "clear"}

\* a system run on the resources: the Exit resource after it
SystemRun(kind, exit) ==
    CASE kind = "keep" -> exit
      [] kind = "set" -> Some(TRUE)
      [] kind = "clear" -> IF exit = None THEN None ELSE Some(FALSE)

\* a test of Exit that never sees it set
MutExitNeverSet(exit) == FALSE

\* resources.get::<Exit>().is_some_and(|e| e.0)
ExitIsSet(exit) == exit # None /\ exit[1]

RunnerIdle ==
    /\ systems = <<>>
    /\ exit_resource = None
    /\ message = <<>>
    /\ run_next = 0
    /\ run_ran = <<>>
    /\ run_seen = <<>>
    /\ run_exits = <<>>
    /\ run_result = "none"

\* SystemRunner::default(), and Resources with or without an Exit
RunnerInit ==
    /\ systems = <<>>
    /\ exit_resource \in Options(BOOLEAN)
    /\ message = <<>>
    /\ run_next = 0
    /\ run_ran = <<>>
    /\ run_seen = <<>>
    /\ run_exits = <<>>
    /\ run_result = "none"

RunnerForget ==
    /\ run_ran' = <<>>
    /\ run_seen' = <<>>
    /\ run_exits' = <<>>
    /\ run_result' = "none"

\* SystemRunner::push
RunnerPush(kind) ==
    /\ run_next = 0
    /\ Len(systems) < MaxSystems
    /\ systems' = Append(systems, kind)
    /\ RunnerForget
    /\ UNCHANGED <<exit_resource, message, run_next>>
    /\ UNCHANGED otherThanRunner

\* SystemRunner::remove; Vec::remove panics for an index out of bounds
RunnerRemove(index) ==
    /\ run_next = 0
    /\ index + 1 \in DOMAIN systems
    /\ systems' = SubSeq(systems, 1, index) \o
                  SubSeq(systems, index + 2, Len(systems))
    /\ RunnerForget
    /\ UNCHANGED <<exit_resource, message, run_next>>
    /\ UNCHANGED otherThanRunner

\* SystemRunner::run is entered: the loop starts at the first system
RunnerRunEnter ==
    /\ run_next = 0
    /\ run_next' = 1
    /\ message' = <<>>
    /\ RunnerForget
    /\ UNCHANGED <<systems, exit_resource>>
    /\ UNCHANGED otherThanRunner

\* one turn of the loop: system.run(resources), then the test of Exit
RunnerRunSystem ==
    /\ run_next \in DOMAIN systems
    /\ LET exit == SystemRun(systems[run_next], exit_resource)
       IN  /\ exit_resource' = exit
           /\ message' = Append(message, run_next)
           /\ run_ran' = Append(run_ran, run_next)
           /\ run_seen' = Append(run_seen, message)
           /\ run_exits' = Append(run_exits, exit = Some(TRUE))
           /\ IF ExitIsSet(exit)
              THEN /\ run_result' = "false"
                   /\ run_next' = 0
              ELSE /\ run_next' = run_next + 1
                   /\ UNCHANGED run_result
    /\ UNCHANGED systems
    /\ UNCHANGED otherThanRunner

\* the loop is over: run returns true
RunnerRunReturn ==
    /\ run_next = Len(systems) + 1
    /\ run_next' = 0
    /\ run_result' = "true"
    /\ UNCHANGED <<systems, exit_resource, message, run_ran, run_seen,
                   run_exits>>
    /\ UNCHANGED otherThanRunner

RunnerNext ==
    \/ \E kind \in SystemKinds : RunnerPush(kind)
    \/ \E index \in 0..(MaxSystems - 1) : RunnerRemove(index)
    \/ RunnerRunEnter
    \/ RunnerRunSystem
    \/ RunnerRunReturn

(***************************************************************************)
(* The order of driver call and mirror write inside the setters of         *)
(* context.rs and inside fallback::GlesDrawDescriptor::bind, on a context  *)
(* without vertex array objects.  An operation is a list of statements     *)
(* left to run: a call of a setter, a driver call, or a write of a field   *)
(* of the mirror; every step runs the first of them, a call of a setter    *)
(* being replaced by the statements its body runs for the mirror of that   *)
(* moment.                                                                 *)
(***************************************************************************)
\* the draw descriptors of the program under study, by id: index buffer
\* (0: IndexBinding::None) and vertex buffer
StepDescriptors ==
    <<[index |-> 1, vertex |-> 2], [index |-> 0, vertex |-> 3]>>

\* the buffers GlesBuffer::write is called on: kind and name
StepBuffers ==
    {[kind |-> "Index", buffer |-> 1], [kind |-> "Index", buffer |-> 4],
     [kind |-> "Vertex", buffer |-> 2], [kind |-> "Vertex", buffer |-> 3]}

StepPrograms == {0, 1}

Call(name, value) == [op |-> "call", name |-> name, value |-> value]

Gl(name, value) == [op |-> "gl", name |-> name, value |-> value]

Write(name, value) == [op |-> "write", name |-> name, value |-> value]

\* if mirror != value { gl call; mirror = value }
SetIfChanged(state, field, target, value) ==
    IF state[field] # value
    THEN <<Gl(target, value), Write(field, value)>>
    ELSE <<>>

\* Feature::update, for cull_face: the capability, then the value
FeatureUpdate(state, value) ==
    (IF (value # None) # state["cull_face.enabled"]
     THEN <<Gl("CULL_FACE", value # None),
            Write("cull_face.enabled", value # None)>>
     ELSE <<>>)
    \o (IF value # None /\ value[1] # state["cull_face.value"]
        THEN <<Gl("cull_face", value[1]),
               Write("cull_face.value", value[1])>>
        ELSE <<>>)

\* fallback::GlesDrawDescriptor::bind: the token is written first, then
\* bind_buffers is called
FallbackBind(state, id) ==
    IF state["current"] = id THEN <<>>
    ELSE <<Write("current", id), Call("bind_buffers", id)>>

\* the statements the body of a setter runs
Body(state, name, value) ==
    CASE name = "use_program" ->
           SetIfChanged(state, "bound_program", "program", value)
      [] name = "set_dithering" ->
           SetIfChanged(state, "dithering", "DITHER", value)
      [] name = "set_cull_face" -> FeatureUpdate(state, value)
      [] name = "bind_buffer.Index" ->
           SetIfChanged(state, "bound_buffers.Index", "ELEMENT_ARRAY_BUFFER",
                        value)
      [] name = "bind_buffer.Vertex" ->
           SetIfChanged(state, "bound_buffers.Vertex", "ARRAY_BUFFER", value)
      [] name = "bind_vertex_array" -> <<Write("bound_buffers.clear", 0)>>
      [] name = "bind" -> FallbackBind(state, value)
      [] name = "bind_buffers" ->
           <<Call("bind_buffer.Index", StepDescriptors[value].index),
             Call("bind_buffer.Vertex", StepDescriptors[value].vertex),
             Gl("vertex_attrib_pointer", 0)>>
      [] name = "write" ->
           <<Call("bind_vertex_array", 0),
             Call("bind_buffer." \o value.kind, value.buffer)>>

\* the driver after a call
GlAfter(driver, name, value) ==
    IF name = "vertex_attrib_pointer"
    THEN [driver EXCEPT
            !["attrib_pointer"] = driver["ARRAY_BUFFER"]]
    ELSE [driver EXCEPT ![name] = value]

\* the mirror after a write of a field; bound_buffers.clear() writes both
StateAfter(state, name, value) ==
    IF name = "bound_buffers.clear"
    THEN [state EXCEPT !["bound_buffers.Index"] = 0,
                       !["bound_buffers.Vertex"] = 0]
    ELSE [state EXCEPT ![name] = value]

MirrorFields ==
    {"bound_program", "dithering", "cull_face.enabled", "cull_face.value",
     "bound_buffers.Index", "bound_buffers.Vertex", "current"}

\* the driver's bindings are those of a draw descriptor
DriverHasDescriptor(driver, id) ==
    /\ driver["ELEMENT_ARRAY_BUFFER"] = StepDescriptors[id].index
    /\ driver["attrib_pointer"] = StepDescriptors[id].vertex

\* the value is current in the driver for what the field mirrors; the
\* token 0 names no descriptor
DriverIs(driver, field, value) ==
    CASE field = "bound_program" -> driver["program"] = value
      [] field = "dithering" -> driver["DITHER"] = value
      [] field = "cull_face.enabled" -> driver["CULL_FACE"] = value
      [] field = "cull_face.value" -> driver["cull_face"] = value
      [] field = "bound_buffers.Index" -> driver["ELEMENT_ARRAY_BUFFER"] = value
      [] field = "bound_buffers.Vertex" -> driver["ARRAY_BUFFER"] = value
      [] field = "current" -> value = 0 \/ DriverHasDescriptor(driver, value)

\* GlesState::default()
StepStateDefault ==
    [f \in MirrorFields |->
       CASE f = "dithering" -> FALSE
         [] f = "cull_face.enabled" -> FALSE
         [] f = "cull_face.value" -> "Back"
         [] OTHER -> 0]

\* the driver of a new context: it dithers, and culls back faces if asked to
StepGlDefault ==
    [t \in {"program", "DITHER", "CULL_FACE", "cull_face",
            "ELEMENT_ARRAY_BUFFER", "ARRAY_BUFFER", "attrib_pointer"} |->
       CASE t = "DITHER" -> TRUE
         [] t = "CULL_FACE" -> FALSE
         [] t = "cull_face" -> "Back"
         [] OTHER -> 0]

NoStepOp == [name |-> "none", value |-> 0]

StepIdle ==
    /\ step_state = StepStateDefault
    /\ step_gl = StepGlDefault
    /\ step_pc = <<>>
    /\ step_op = NoStepOp

StepInit ==
    /\ step_state = StepStateDefault
    /\ step_gl = StepGlDefault
    /\ step_pc = <<>>
    /\ step_op = NoStepOp

\* an operation is called while none is under way
StepCall(name, value) ==
    /\ step_pc = <<>>
    /\ step_pc' = <<Call(name, value)>>
    /\ step_op' = [name |-> name, value |-> value]
    /\ UNCHANGED <<step_state, step_gl>>
    /\ UNCHANGED otherThanStep

\* the call of a setter: its body runs next
StepEnter ==
    /\ step_pc # <<>>
    /\ Head(step_pc).op = "call"
    /\ step_pc' = Body(step_state, Head(step_pc).name, Head(step_pc).value)
                    \o Tail(step_pc)
    /\ UNCHANGED <<step_state, step_gl, step_op>>
    /\ UNCHANGED otherThanStep

\* a driver call
StepGl ==
    /\ step_pc # <<>>
    /\ Head(step_pc).op = "gl"
    /\ step_gl' = GlAfter(step_gl, Head(step_pc).name, Head(step_pc).value)
    /\ step_pc' = Tail(step_pc)
    /\ UNCHANGED <<step_state, step_op>>
    /\ UNCHANGED otherThanStep

\* a write of the mirror
StepWrite ==
    /\ step_pc # <<>>
    /\ Head(step_pc).op = "write"
    /\ step_state' = StateAfter(step_state, Head(step_pc).name,
                                Head(step_pc).value)
    /\ step_pc' = Tail(step_pc)
    /\ UNCHANGED <<step_gl, step_op>>
    /\ UNCHANGED otherThanStep

StepNext ==
    \/ \E program \in StepPrograms : StepCall("use_program", program)
    \/ \E dithering \in BOOLEAN : StepCall("set_dithering", dithering)
    \/ \E cull_face \in Options(CullFaceModes) :
          StepCall("set_cull_face", cull_face)
    \/ \E id \in DOMAIN StepDescriptors : StepCall("bind", id)
    \/ \E buffer \in StepBuffers : StepCall("write", buffer)
    \/ StepEnter
    \/ StepGl
    \/ StepWrite

(***************************************************************************)
(* The texture units of a context, from GlesContext::new on: the limit it  *)
(* computes, the unit FakeFramebuffer::new takes for the draw texture of   *)
(* the flipper, the unit FallbackFramebufferBlitter starts with, and every *)
(* index into GlesState::texture_units, an array of MAX_TEXTURES entries.  *)
(* Sampler states are left out; a draw call passes one texture.            *)
(***************************************************************************)
\* context.rs: pub const MAX_TEXTURES: usize = 32
MAX_TEXTURES == 32

\* what drivers report as MAX_TEXTURE_IMAGE_UNITS: 2 is the least OpenGL 2
\* allows, 8 the least of OpenGL ES 2
DriverUnitMaxima == {2, 8, 32, 33}

\* the draw texture of the fake framebuffer
DrawTexture == MaxTextures + 1

\* GlesContext::new with no unit set aside
MutLimitNotReserved(max, flip, can_blit) == max

\* GlesContext::new: a unit is set aside for the fake default framebuffer
TextureUnitLimit(max, flip, can_blit) ==
    IF flip /\ ~can_blit THEN max - 1 ELSE max

\* The state the operations below thread through
UnitCtx ==
    [table     |-> unit_table,
     active    |-> unit_active,
     cached    |-> unit_cached,
     blit_unit |-> unit_blit_unit,
     gl_active |-> unit_gl_active,
     gl_bound  |-> unit_gl_bound,
     indexed   |-> {},
     touched   |-> {},
     panicked  |-> FALSE]

\* texture_units[i] for every i of a set: the indices are recorded, and one
\* outside the array panics
IndexAll(c, used) ==
    IF c.panicked THEN c
    ELSE [c EXCEPT !.indexed = @ \cup used,
                   !.panicked = \E i \in used : i >= MAX_TEXTURES]

\* glActiveTexture(TEXTURE0 + unit): GL_INVALID_ENUM leaves the active unit
\* as it is when the driver has no such unit
GlActiveTexture(c, unit) ==
    IF c.panicked \/ unit >= unit_max THEN c
    ELSE [c EXCEPT !.gl_active = unit]

\* glBindTexture(TEXTURE_2D, texture) on the driver's active unit
GlBindTexture2D(c, texture) ==
    IF c.panicked THEN c
    ELSE [c EXCEPT !.gl_bound[c.gl_active] = texture,
                   !.touched = @ \cup {c.gl_active}]

\* glDeleteTextures: the driver unbinds the texture where it is bound
GlDeleteTexture2D(c, texture) ==
    IF c.panicked THEN c
    ELSE LET bound == {u \in DOMAIN c.gl_bound : c.gl_bound[u] = texture}
         IN  [c EXCEPT !.gl_bound = [u \in DOMAIN @ |->
                                       IF u \in bound THEN 0 ELSE @[u]],
                       !.touched = @ \cup bound]

\* GlesContextRef::activate_texture_unit
UnitActivateTextureUnit(c, unit) ==
    IF c.panicked \/ c.active = unit THEN c
    ELSE [GlActiveTexture(c, unit) EXCEPT !.active = unit]

\* the entries of the table a loop over 0..texture_unit_limit can read
Scannable == 0..((IF unit_limit < MAX_TEXTURES THEN unit_limit
                  ELSE MAX_TEXTURES) - 1)

\* the first scannable unit that holds the texture (0: no texture), or -1
UnitHolding(c, texture) ==
    FirstUnit({i \in Scannable : c.table[i] = texture})

\* the indices read by a loop over 0..texture_unit_limit that ends at the
\* unit `last` if there is one (not -1), and runs to the limit if not
Scanned(last) == IF last # -1 THEN 0..last ELSE 0..(unit_limit - 1)

\* texture_units[unit].texture = texture
UnitSet(c, unit, texture) ==
    LET a == IndexAll(c, {unit})
    IN  IF a.panicked THEN a ELSE [a EXCEPT !.table[unit] = texture]

\* GlesContextRef::activate_texture
UnitActivateTexture(c, texture) ==
    LET bound_unit == UnitHolding(c, texture)
        empty_unit == UnitHolding(c, 0)
        a == IndexAll(c, Scanned(bound_unit))
    IN  IF a.panicked THEN a
        ELSE IF bound_unit # -1 THEN UnitActivateTextureUnit(a, bound_unit)
        ELSE LET b == GlBindTexture2D(
                        UnitActivateTextureUnit(
                          a, IF empty_unit = -1 THEN 0 ELSE empty_unit),
                        texture)
             IN  UnitSet(b, b.active, texture)

\* bind_texture of frame_buffer.rs for the one sampler of the shader; the
\* expect panics when there is no unit at all
UnitDrawBinding(c, texture) ==
    LET a == IndexAll(c, {c.cached})
        free_unit == UnitHolding(c, 0)
        b == IndexAll(a, Scanned(free_unit))
        unit == IF free_unit # -1 THEN free_unit ELSE 0
    IN  IF a.panicked THEN a
        ELSE IF a.table[a.cached] = texture THEN a
        ELSE IF b.panicked THEN b
        ELSE IF unit_limit = 0 THEN [b EXCEPT !.panicked = TRUE]
        ELSE LET d == UnitSet(GlBindTexture2D(
                                UnitActivateTextureUnit(b, unit), texture),
                              unit, texture)
             IN  [d EXCEPT !.cached = unit]

\* Drop for GlesTexture
UnitDropTexture(c, texture) ==
    LET a == IndexAll(c, 0..(unit_limit - 1))
        holds == {i \in Scannable : c.table[i] = texture}
        u == CHOOSE i \in holds : \A j \in holds : j <= i
        b == [a EXCEPT
                !.table = [i \in DOMAIN @ |->
                             IF i \in holds THEN 0 ELSE @[i]],
                !.gl_bound = [i \in DOMAIN @ |->
                                IF i \in holds THEN 0 ELSE @[i]],
                !.touched = @ \cup holds,
                !.gl_active = IF holds = {} THEN @ ELSE u,
                !.active = IF holds = {} THEN @ ELSE u]
    IN  IF a.panicked THEN a ELSE GlDeleteTexture2D(b, texture)

\* GlesContextRef::bind_texture
UnitBindTexture(c, unit, texture) ==
    LET a == IndexAll(c, {unit})
    IN  IF a.panicked \/ a.table[unit] = texture THEN a
        ELSE UnitSet(GlBindTexture2D(UnitActivateTextureUnit(a, unit),
                                     texture),
                     unit, texture)

\* bind_texture of frame_buffer_blitter.rs, then the blit with the unit it
\* returns, which FallbackFramebufferBlitter::blit keeps as current
UnitBlitTexture(c, texture) ==
    LET a == IndexAll(c, {c.blit_unit})
        bound_unit == UnitHolding(c, texture)
        empty_unit == UnitHolding(c, 0)
        b == IndexAll(a, Scanned(bound_unit))
        unit == IF empty_unit = -1 THEN 0 ELSE empty_unit
    IN  IF a.panicked \/ a.table[a.blit_unit] = texture THEN a
        ELSE IF b.panicked THEN b
        ELSE IF bound_unit # -1 THEN [b EXCEPT !.blit_unit = bound_unit]
        ELSE LET d == UnitBindTexture(b, unit, texture)
             IN  IF d.panicked THEN d ELSE [d EXCEPT !.blit_unit = unit]

\* FakeFramebuffer::new, as far as texture units go
UnitFakeFramebufferNew(c) ==
    GlBindTexture2D(UnitActivateTextureUnit(c, unit_limit), DrawTexture)

\* ScreenFlipper::framebuffer when the size of the window has changed
UnitFlipperResize(c) ==
    UnitFakeFramebufferNew(GlDeleteTexture2D(c, DrawTexture))

\* GlesState::default() with the limit, and the driver of a new context;
\* FrameBufferBlitter::new: the fallback starts with the unit of index
\* texture_unit_limit (-1: there is no fallback)
UnitCtxDefault ==
    [table     |-> [i \in 0..(MAX_TEXTURES - 1) |-> 0],
     active    |-> 0,
     cached    |-> 0,
     blit_unit |-> IF unit_blit THEN -1 ELSE unit_limit,
     gl_active |-> 0,
     gl_bound  |-> [u \in 0..(unit_max - 1) |-> 0],
     indexed   |-> {},
     touched   |-> {},
     panicked  |-> FALSE]

\* GlesContext::new: the flipper is made when the setting asks for it
UnitCtxNew ==
    IF unit_flip THEN UnitFakeFramebufferNew(UnitCtxDefault)
    ELSE UnitCtxDefault

UnitOp(kind, c) ==
    [kind |-> kind, indexed |-> c.indexed, touched |-> c.touched,
     panicked |-> c.panicked]

UnitIs(c) ==
    /\ unit_table = c.table
    /\ unit_active = c.active
    /\ unit_cached = c.cached
    /\ unit_blit_unit = c.blit_unit
    /\ unit_gl_active = c.gl_active
    /\ unit_gl_bound = c.gl_bound

UnitIdle ==
    /\ unit_max = 2
    /\ unit_flip = FALSE
    /\ unit_blit = TRUE
    /\ unit_limit = 2
    /\ UnitIs(UnitCtxDefault)
    /\ unit_live = {}
    /\ unit_ops = 0
    /\ unit_op = UnitOp("none", UnitCtxDefault)

\* the state right after GlesContext::new
UnitInit ==
    /\ unit_max \in DriverUnitMaxima
    /\ unit_flip \in BOOLEAN
    /\ unit_blit \in BOOLEAN
    /\ unit_limit = TextureUnitLimit(unit_max, unit_flip, unit_blit)
    /\ UnitIs(UnitCtxNew)
    /\ unit_live = {}
    /\ unit_ops = 0
    /\ unit_op = UnitOp("new_context", UnitCtxNew)

\* the mirror and the driver after an operation that ended in state c
UnitCommit(kind, c) ==
    /\ unit_table' = c.table
    /\ unit_active' = c.active
    /\ unit_cached' = c.cached
    /\ unit_blit_unit' = c.blit_unit
    /\ unit_gl_active' = c.gl_active
    /\ unit_gl_bound' = c.gl_bound
    /\ unit_op' = UnitOp(kind, c)
    /\ unit_ops < MaxUnitOps
    /\ unit_ops' = unit_ops + 1
    /\ UNCHANGED <<unit_max, unit_flip, unit_blit, unit_limit>>
    /\ UNCHANGED otherThanUnit

\* GlesTexture::new
UnitTextureNew ==
    /\ ~unit_op.panicked
    /\ \E t \in Textures \ unit_live :
          /\ UnitCommit("new", UnitActivateTexture(UnitCtx, t))
          /\ unit_live' = unit_live \cup {t}

\* GlesTexture::write, write_rect and generate_mipmaps
UnitTextureWrite(t) ==
    /\ ~unit_op.panicked
    /\ t \in unit_live
    /\ UnitCommit("write", UnitActivateTexture(UnitCtx, t))
    /\ UNCHANGED unit_live

\* GlesFrameBuffer::draw with the texture under the sampler of the shader
UnitTextureDraw(t) ==
    /\ ~unit_op.panicked
    /\ t \in unit_live
    /\ UnitCommit("draw", UnitDrawBinding(UnitCtx, t))
    /\ UNCHANGED unit_live

\* Drop for GlesTexture
UnitTextureDrop(t) ==
    /\ ~unit_op.panicked
    /\ t \in unit_live
    /\ UnitCommit("drop", UnitDropTexture(UnitCtx, t))
    /\ unit_live' = unit_live \ {t}

\* FrameBufferBlitter::blit from the texture of a framebuffer, through the
\* fallback
UnitBlit(t) ==
    /\ ~unit_op.panicked
    /\ ~unit_blit
    /\ t \in unit_live
    /\ UnitCommit("blit", UnitBlitTexture(UnitCtx, t))
    /\ UNCHANGED unit_live

\* the window changes size and the flipper makes its framebuffer again
UnitResize ==
    /\ ~unit_op.panicked
    /\ unit_flip
    /\ UnitCommit("resize", UnitFlipperResize(UnitCtx))
    /\ UNCHANGED unit_live

UnitNext ==
    \/ UnitTextureNew
    \/ \E t \in Textures : UnitTextureWrite(t)
    \/ \E t \in Textures : UnitTextureDraw(t)
    \/ \E t \in Textures : UnitTextureDrop(t)
    \/ \E t \in Textures : UnitBlit(t)
    \/ UnitResize

(***************************************************************************)
(* The default framebuffer of a window: frame_buffer.rs lines 142-236 and  *)
(* 283-362 and Graphics::swap_buffers of lib.rs.  A GlesFrameBuffer made   *)
(* by default() holds Resources::FakeDefault when the setting asks for a   *)
(* flipped default framebuffer; what it draws to is looked up in the       *)
(* context at every operation.                                             *)
(***************************************************************************)

\* a GlesFrameBuffer of the default target: its Resources variant and the
\* frame in which default() returned it
WindowHandles ==
    [res : {"Default", "FakeDefault"}, frame : 0..MaxSwaps]

\* GlesContextRef::default_framebuffer_size: the size cached for the frame,
\* and the backend's when nothing is cached yet
default_framebuffer_size(cached_size, backend_size) ==
    IF cached_size # None THEN cached_size[1] ELSE backend_size

\* Resources::size for a default target asks for that size, which caches it
SizeAsked == Some(default_framebuffer_size(win_cached, win_surface))

\* Resources::framebuffer: None is the window's own framebuffer, and the
\* fake one is whichever the context holds now
ResourcesFramebuffer(variant) ==
    IF variant = "FakeDefault" /\ win_fake # None
    THEN [target |-> "fake", size |-> win_fake[1]]
    ELSE [target |-> "window", size |-> win_surface]

\* the fake framebuffer after GlesFrameBuffer::default: made again when
\* there is none or when its size is not the size asked
FakeAfterDefault ==
    IF win_fake = None \/ win_fake # SizeAsked THEN SizeAsked ELSE win_fake

WindowOp(kind, which, fb) ==
    [kind |-> kind, handle |-> which, fb |-> fb]

NoWindowOp ==
    WindowOp("none", None, [target |-> "window", size |-> FramebufferSize])

WindowIdle ==
    /\ win_flip = FALSE
    /\ win_surface = FramebufferSize
    /\ win_cached = None
    /\ win_fake = None
    /\ win_handles = {}
    /\ win_swaps = 0
    /\ win_queries = 0
    /\ win_frame_size = None
    /\ win_asked = None
    /\ win_op = NoWindowOp

\* the state after Gles::new_with_settings: GlesContext::new has asked the
\* backend for the size and cached it (context.rs:153, 191); no default
\* framebuffer has been asked for yet
WindowInit ==
    /\ win_flip \in BOOLEAN
    /\ win_surface \in WindowSizes
    /\ win_cached = Some(win_surface)
    /\ win_fake = None
    /\ win_handles = {}
    /\ win_swaps = 0
    /\ win_queries = 1
    /\ win_frame_size = Some(win_surface)
    /\ win_asked = None
    /\ win_op = NoWindowOp

\* an operation that calls default_framebuffer_size: the backend is asked
\* when nothing is cached, and the answer is cached
WindowAsks ==
    /\ win_asked' = SizeAsked
    /\ win_cached' = SizeAsked
    /\ win_queries' = IF win_cached = None THEN win_queries + 1
                      ELSE win_queries
    /\ win_frame_size' = IF win_queries = 0 THEN SizeAsked ELSE win_frame_size

\* an operation that does not ask for the size
WindowAsksNothing ==
    /\ win_asked' = None
    /\ UNCHANGED <<win_cached, win_queries, win_frame_size>>

\* the user resizes the window: WindowBackend::default_frame_buffer_size
\* reports another size from now on
WindowResized(new_size) ==
    /\ new_size # win_surface
    /\ win_surface' = new_size
    /\ win_op' = WindowOp("resized", None, win_op.fb)
    /\ WindowAsksNothing
    /\ UNCHANGED <<win_flip, win_fake, win_handles, win_swaps>>
    /\ UNCHANGED otherThanWindow

\* GlesFrameBuffer::default
WindowDefault ==
    LET made == [res   |-> IF win_flip THEN "FakeDefault" ELSE "Default",
                 frame |-> win_swaps]
    IN  /\ IF win_flip THEN WindowAsks ELSE WindowAsksNothing
        /\ win_fake' = IF win_flip THEN FakeAfterDefault ELSE win_fake
        /\ win_handles' = win_handles \cup {made}
        /\ win_op' = WindowOp("default", Some(made), win_op.fb)
        /\ UNCHANGED <<win_flip, win_surface, win_swaps>>
        /\ UNCHANGED otherThanWindow

\* GlesFrameBuffer::clear: the size is asked only to turn the scissor
\* around, which a flipped default framebuffer does not need
WindowClear(which, scissor) ==
    /\ which \in win_handles
    /\ IF ~win_flip /\ scissor THEN WindowAsks ELSE WindowAsksNothing
    /\ win_op' = WindowOp("clear", Some(which), ResourcesFramebuffer(which.res))
    /\ UNCHANGED <<win_flip, win_surface, win_fake, win_handles, win_swaps>>
    /\ UNCHANGED otherThanWindow

\* GlesFrameBuffer::draw: the size is asked first, then the framebuffer
WindowDraw(which) ==
    /\ which \in win_handles
    /\ WindowAsks
    /\ win_op' = WindowOp("draw", Some(which), ResourcesFramebuffer(which.res))
    /\ UNCHANGED <<win_flip, win_surface, win_fake, win_handles, win_swaps>>
    /\ UNCHANGED otherThanWindow

\* GlesFrameBuffer::read
WindowRead(which) ==
    /\ which \in win_handles
    /\ win_op' = WindowOp("read", Some(which), ResourcesFramebuffer(which.res))
    /\ WindowAsksNothing
    /\ UNCHANGED <<win_flip, win_surface, win_fake, win_handles, win_swaps>>
    /\ UNCHANGED otherThanWindow

\* GlesFrameBuffer::size
WindowSize(which) ==
    /\ which \in win_handles
    /\ WindowAsks
    /\ win_op' = WindowOp("size", Some(which), win_op.fb)
    /\ UNCHANGED <<win_flip, win_surface, win_fake, win_handles, win_swaps>>
    /\ UNCHANGED otherThanWindow

\* swap_buffers that keeps the size cached
MutSwapKeepsSize == win_cached

\* Graphics::swap_buffers: ctx.state.default_frame_buffer_size = None
swap_buffers_size == None

\* Graphics::swap_buffers: the fake framebuffer is drawn onto the window,
\* the cached size is forgotten and the backend presents the frame
WindowSwapBuffers ==
    /\ win_swaps < MaxSwaps
    /\ win_swaps' = win_swaps + 1
    /\ win_cached' = swap_buffers_size
    /\ win_queries' = 0
    /\ win_frame_size' = None
    /\ win_asked' = None
    /\ win_op' = WindowOp("swap_buffers", None,
                          [target |-> "window", size |-> win_surface])
    /\ UNCHANGED <<win_flip, win_surface, win_fake, win_handles>>
    /\ UNCHANGED otherThanWindow

WindowNext ==
    \/ \E new_size \in WindowSizes : WindowResized(new_size)
    \/ WindowDefault
    \/ \E which \in WindowHandles, scissor \in BOOLEAN :
          WindowClear(which, scissor)
    \/ \E which \in WindowHandles : WindowDraw(which)
    \/ \E which \in WindowHandles : WindowRead(which)
    \/ \E which \in WindowHandles : WindowSize(which)
    \/ WindowSwapBuffers

(***************************************************************************)
(* The sampler objects of a context that supports them: samplers.rs lines  *)
(* 20-69 and Drop for GlesContext (context.rs:120-137).  The callers of    *)
(* bind_sampler hand it a unit below texture_unit_limit.                   *)
(***************************************************************************)

\* the sampler states the draw calls of the model ask for
SamplerObjectStates == SamplerStates \cup {"linear"}

\* the units below texture_unit_limit
SamplerUnits == 0..(MaxSamplerUnits - 1)

\* the names the driver can hand out for sampler objects
SamplerHandles == 1..(MaxSamplerBinds + 1)

SamplersCtx ==
    [units    |-> so_units,
     cache    |-> so_cache,
     gl_alive |-> so_gl_alive,
     gl_bound |-> so_gl_bound,
     made     |-> so_made,
     deleted  |-> so_deleted]

\* glGenSamplers: a name the driver has not handed out yet
GlCreateSampler(c) ==
    CHOOSE s \in SamplerHandles :
        /\ \A state \in SamplerObjectStates : s \notin Range(c.made[state])
        /\ \A t \in SamplerHandles :
              (\A state \in SamplerObjectStates : t \notin Range(c.made[state]))
                 => s <= t

\* glDeleteSamplers: the object goes away and the units it was bound to
\* are left with no sampler
GlDeleteSampler(c, sampler) ==
    [c EXCEPT !.gl_alive = @ \ {sampler},
              !.gl_bound = [u \in DOMAIN @ |->
                              IF @[u] = sampler THEN 0 ELSE @[u]],
              !.deleted[sampler] = @ + 1]

\* get_sampler_object with no look at the cache
MutAlwaysCreates(c, state) ==
    LET sampler == GlCreateSampler(c)
    IN  [c EXCEPT !.gl_alive = @ \cup {sampler},
                  !.made[state] = Append(@, sampler),
                  !.cache[state] = sampler]

\* GlesContextRef::get_sampler_object: the context after the call; the
\* sampler returned is cache[state]
get_sampler_object(c, state) ==
    IF c.cache[state] # 0 THEN c
    ELSE LET sampler == GlCreateSampler(c)
         IN  [c EXCEPT !.gl_alive = @ \cup {sampler},
                       !.made[state] = Append(@, sampler),
                       !.cache[state] = sampler]

\* GlesContextRef::bind_sampler_object
SamplerBindObject(c, unit, state) ==
    IF c.units[unit] = state THEN c
    ELSE LET a == get_sampler_object(c, state)
         IN  [a EXCEPT !.gl_bound[unit] = a.cache[state],
                       !.units[unit] = state]

RECURSIVE DrainFrom(_, _)
\* Samplers::drain: every sampler of the cache is deleted and the cache is
\* left empty
DrainFrom(c, states) ==
    IF states = {} THEN c
    ELSE LET state == CHOOSE s \in states : TRUE
             a == IF c.cache[state] = 0 THEN c
                  ELSE [GlDeleteSampler(c, c.cache[state])
                          EXCEPT !.cache[state] = 0]
         IN  DrainFrom(a, states \ {state})

drain(c) == DrainFrom(c, SamplerObjectStates)

\* Drop for GlesContext with sampler objects: bind_sampler(i, None) for
\* every unit below the limit, then drain
SamplersContextDrop(c) ==
    drain([c EXCEPT !.gl_bound = [u \in DOMAIN @ |->
                                    IF u \in SamplerUnits THEN 0 ELSE @[u]]])

SamplersCommit(c) ==
    /\ so_units' = c.units
    /\ so_cache' = c.cache
    /\ so_gl_alive' = c.gl_alive
    /\ so_gl_bound' = c.gl_bound
    /\ so_made' = c.made
    /\ so_deleted' = c.deleted
    /\ UNCHANGED otherThanSamplers

\* GlesState::default() and a driver that holds no sampler object
SamplersInit ==
    /\ so_units = [u \in SamplerUnits |-> "default"]
    /\ so_cache = [state \in SamplerObjectStates |-> 0]
    /\ so_gl_alive = {}
    /\ so_gl_bound = [u \in SamplerUnits |-> 0]
    /\ so_made = [state \in SamplerObjectStates |-> <<>>]
    /\ so_deleted = [s \in SamplerHandles |-> 0]
    /\ so_binds = 0
    /\ so_dropped = FALSE

SamplersIdle == SamplersInit

\* GlesContextRef::bind_sampler from a draw call or a blit, on a context
\* with sampler objects
SamplersBind(unit, state) ==
    /\ ~so_dropped
    /\ so_binds < MaxSamplerBinds
    /\ so_binds' = so_binds + 1
    /\ SamplersCommit(SamplerBindObject(SamplersCtx, unit, state))
    /\ UNCHANGED so_dropped

\* Drop for GlesContext
SamplersDrop ==
    /\ ~so_dropped
    /\ so_dropped' = TRUE
    /\ SamplersCommit(SamplersContextDrop(SamplersCtx))
    /\ UNCHANGED so_binds

SamplersNext ==
    \/ \E unit \in SamplerUnits, state \in SamplerObjectStates :
          SamplersBind(unit, state)
    \/ SamplersDrop

(***************************************************************************)
(* The identity tokens of draw descriptors on a context without vertex     *)
(* array objects: fallback::GlesDrawDescriptor of draw_descriptor.rs.  The *)
(* operations count the driver calls they make.                            *)
(***************************************************************************)

\* the buffers a descriptor can hold (0: none), and the vertex buffer of
\* the blitter, which is none of them
TokenBuffers == 0..1

TokenBlitBuffer == Cardinality(TokenBuffers)

TokenCtx ==
    [cache |-> tk_cache, bound |-> tk_bound, calls |-> 0]

\* a counter that is not advanced
MutCounterStays(counter) == counter

\* ctx.state.draw_descriptor_cache.counter += 1
NextCounter(counter) == counter + 1

\* GlesContextRef::bind_buffer, counting the call to the driver
TokenBindBuffer(c, kind, buffer) ==
    IF c.bound[kind] = buffer THEN c
    ELSE [c EXCEPT !.bound[kind] = buffer, !.calls = @ + 1]

\* draw_descriptor::bind_buffers for a descriptor with one attribute the
\* shader declares: enable_vertex_attrib_array and vertex_attrib_pointer
\* are called for it
TokenBindBuffers(c, descriptor) ==
    LET a == TokenBindBuffer(c, "Index", descriptor.index)
        b == TokenBindBuffer(a, "Vertex", descriptor.vertex)
    IN  IF descriptor.vertex = 0 THEN a ELSE [b EXCEPT !.calls = @ + 2]

\* fallback::GlesDrawDescriptor::new: the context after it; the id of the
\* descriptor is the counter
fallback_new(c) ==
    [c EXCEPT !.cache.counter = NextCounter(@)]

\* fallback::GlesDrawDescriptor::bind
fallback_bind(c, descriptor) ==
    IF c.cache.current = descriptor.id THEN c
    ELSE TokenBindBuffers([c EXCEPT !.cache.current = descriptor.id],
                          descriptor)

\* FallbackFramebufferBlitter::blit and ScreenFlipper::blit, as far as the
\* token goes: no descriptor is current after them
TokenBlitBindings(c) ==
    [TokenBindBuffer([c EXCEPT !.cache.current = 0], "Vertex",
                     TokenBlitBuffer)
       EXCEPT !.calls = @ + 2]

TokenOp(kind, made, hit, c) ==
    [kind |-> kind, made |-> made, hit |-> hit, calls |-> c.calls]

TokenCommit(c) ==
    /\ tk_cache' = c.cache
    /\ tk_bound' = c.bound
    /\ UNCHANGED otherThanToken

\* DrawDescriptorCache::default() and GlesState::default()
TokenInit ==
    /\ tk_cache = [counter |-> 0, current |-> 0]
    /\ tk_made = <<>>
    /\ tk_alive = {}
    /\ tk_bound = [kind \in BufferKinds |-> 0]
    /\ tk_op = TokenOp("none", 0, FALSE, [calls |-> 0])

TokenIdle == TokenInit

\* GlesDrawDescriptor::new on a context without vertex array objects
TokenNew(index, vertex) ==
    /\ Len(tk_made) < MaxDescriptors
    /\ LET c == fallback_new(TokenCtx)
           descriptor == [id |-> c.cache.counter, index |-> index,
                          vertex |-> vertex]
       IN  /\ TokenCommit(c)
           /\ tk_made' = Append(tk_made, descriptor)
           /\ tk_alive' = tk_alive \cup {Len(tk_made) + 1}
           /\ tk_op' = TokenOp("new", Len(tk_made) + 1, FALSE, c)

\* GlesFrameBuffer::draw with a descriptor: GlesDrawDescriptor::bind
TokenBind(k) ==
    /\ k \in tk_alive
    /\ LET c == fallback_bind(TokenCtx, tk_made[k])
       IN  /\ TokenCommit(c)
           /\ tk_op' = TokenOp("bind", k,
                               tk_cache.current = tk_made[k].id, c)
    /\ UNCHANGED <<tk_made, tk_alive>>

\* a descriptor is dropped: the fallback descriptor has no Drop of its own
TokenDrop(k) ==
    /\ k \in tk_alive
    /\ tk_alive' = tk_alive \ {k}
    /\ tk_op' = TokenOp("drop", k, FALSE, [calls |-> 0])
    /\ UNCHANGED <<tk_cache, tk_made, tk_bound>>
    /\ UNCHANGED otherThanToken

\* a blit through the fallback blitter or the screen flipper
TokenBlit ==
    /\ LET c == TokenBlitBindings(TokenCtx)
       IN  TokenCommit(c) /\ tk_op' = TokenOp("blit", 0, FALSE, c)
    /\ UNCHANGED <<tk_made, tk_alive>>

TokenNext ==
    \/ \E index \in TokenBuffers, vertex \in TokenBuffers :
          TokenNew(index, vertex)
    \/ \E k \in 1..MaxDescriptors : TokenBind(k)
    \/ \E k \in 1..MaxDescriptors : TokenDrop(k)
    \/ TokenBlit

(***************************************************************************)
(* The uniforms of shader programs: bind_uniforms of frame_buffer.rs       *)
(* (lines 549-612) with the cache of shader.rs.  Sizes and offsets are in  *)
(* bytes, scaled down; a layout is the FORMAT of a Uniforms type.          *)
(***************************************************************************)

\* the uniforms two shader programs declare, with the size the driver
\* reports for each
UniformAttributes(shader) ==
    IF shader = 1 THEN [x |-> 1, y |-> 2] ELSE [x |-> 1]

\* Uniforms::FORMAT of three types of MaxUniformLen bytes, and of ()
UniformLayout(layout) ==
    CASE layout = "F" -> <<[name |-> "x", offset |-> 0, size |-> 1],
                            [name |-> "y", offset |-> 1, size |-> 2]>>
      [] layout = "G" -> <<[name |-> "y", offset |-> 0, size |-> 2],
                            [name |-> "x", offset |-> 2, size |-> 1]>>
      [] layout = "H" -> <<[name |-> "x", offset |-> 0, size |-> 1],
                            [name |-> "y", offset |-> 1, size |-> 1]>>
      [] OTHER        -> <<>>

UniformLayouts == {"F", "G", "H"}

\* the values of a Uniforms type, as bytes
UniformValues == [1..MaxUniformLen -> 0..1]

\* &uniforms[attribute.offset..(attribute.offset + attribute.size)]
UniformRange(bytes, attribute) ==
    [i \in 1..attribute.size |-> bytes[attribute.offset + i]]

\* the cache compared with the new bytes whenever a draw has filled it,
\* whatever the layout of that draw was
MutSameTypeAnyLayout(cached_format, format, same_address) ==
    cached_format # "()"

\* std::ptr::eq(shader_state.uniforms_cache.0, format): two formats are at
\* one address only if they are the FORMAT of one type, and whether two
\* uses of that constant share an address is up to the build
same_type(cached_format, format, same_address) ==
    cached_format = format /\ same_address

\* the body of the loop of bind_uniforms for one attribute, on the state
\* [cache, gl, uploaded, skipped, panicked]
UniformBindAttribute(c, shader, bytes, attribute, same) ==
    LET declared == UniformAttributes(shader)
        new      == UniformRange(bytes, attribute)
    IN  IF c.panicked \/ attribute.name \notin DOMAIN declared THEN c
        ELSE IF same /\ UniformRange(c.cache.bytes, attribute) = new
        THEN [c EXCEPT !.skipped = @ \cup {attribute.name}]
        ELSE IF declared[attribute.name] > attribute.size
        THEN [c EXCEPT !.panicked = TRUE]
        ELSE [c EXCEPT !.gl[attribute.name] = new,
                       !.uploaded = @ \cup {attribute.name}]

RECURSIVE UniformBindAll(_, _, _, _, _)
UniformBindAll(c, shader, bytes, attributes, same) ==
    IF attributes = <<>> THEN c
    ELSE UniformBindAll(
           UniformBindAttribute(c, shader, bytes, Head(attributes), same),
           shader, bytes, Tail(attributes), same)

\* bind_uniforms: the loop, then the cache takes the format and the bytes
\* unless an assertion has unwound the call
bind_uniforms(c, shader, bytes, layout, same_address) ==
    LET same == same_type(c.cache.format, layout, same_address)
        a == UniformBindAll(c, shader, bytes, UniformLayout(layout), same)
    IN  IF a.panicked THEN a
        ELSE [a EXCEPT !.cache = [format |-> layout, bytes |-> bytes]]

UniformCtx(shader) ==
    [cache    |-> un_cache[shader],
     gl       |-> un_gl[shader],
     uploaded |-> {},
     skipped  |-> {},
     panicked |-> FALSE]

\* every attribute of the layout that the shader declares has in the
\* driver the bytes the buffer holds for it
UniformsApplied(program, shader, layout, bytes) ==
    \A i \in DOMAIN UniformLayout(layout) :
        LET attribute == UniformLayout(layout)[i]
        IN  attribute.name \in DOMAIN UniformAttributes(shader)
              => program[attribute.name] = UniformRange(bytes, attribute)

\* every attribute skipped has the bytes the last draw with this shader
\* held for it, and that draw had the same layout
SkipsJustified(skipped, shader, layout, bytes) ==
    \A i \in DOMAIN UniformLayout(layout) :
        LET attribute == UniformLayout(layout)[i]
        IN  attribute.name \in skipped =>
              /\ un_last[shader] # None
              /\ un_last[shader][1].layout = layout
              /\ UniformRange(un_last[shader][1].bytes, attribute)
                   = UniformRange(bytes, attribute)

NoUniformOp ==
    [kind |-> "none", shader |-> 0, layout |-> "()", uploaded |-> {},
     skipped |-> {}, applied |-> FALSE, justified |-> FALSE]

\* GlesShader::new for both shaders: the cache holds the format of () and
\* no bytes, and the driver has zeroes in every uniform of a new program
UniformInit ==
    /\ un_cache = [shader \in Shaders |->
                     [format |-> "()", bytes |-> <<>>]]
    /\ un_gl = [shader \in Shaders |->
                  [name \in DOMAIN UniformAttributes(shader) |->
                     [i \in 1..UniformAttributes(shader)[name] |-> 0]]]
    /\ un_last = [shader \in Shaders |-> None]
    /\ un_panicked = FALSE
    /\ un_op = NoUniformOp

UniformIdle == UniformInit

\* GlesFrameBuffer::draw with a uniform buffer of a Uniforms type, as far
\* as uniforms go: use_program, then bind_uniforms
UniformDraw(shader, layout, bytes, same_address) ==
    /\ ~un_panicked
    /\ LET r == bind_uniforms(UniformCtx(shader), shader, bytes, layout,
                              same_address)
       IN  /\ un_cache' = [un_cache EXCEPT ![shader] = r.cache]
           /\ un_gl' = [un_gl EXCEPT ![shader] = r.gl]
           /\ un_panicked' = r.panicked
           /\ un_last' = IF r.panicked THEN un_last
                         ELSE [un_last EXCEPT ![shader] =
                                 Some([layout |-> layout, bytes |-> bytes])]
           /\ un_op' = [kind |-> IF r.panicked THEN "panic" ELSE "draw",
                        shader |-> shader, layout |-> layout,
                        uploaded |-> r.uploaded, skipped |-> r.skipped,
                        applied |->
                            UniformsApplied(r.gl, shader, layout, bytes),
                        justified |->
                            SkipsJustified(r.skipped, shader, layout, bytes)]
    /\ UNCHANGED otherThanUniform

UniformNext ==
    \E shader \in Shaders, layout \in UniformLayouts,
       bytes \in UniformValues, same_address \in BOOLEAN :
          UniformDraw(shader, layout, bytes, same_address)

(***************************************************************************)
(* One blit of FrameBufferBlitter::blit as two contexts carry it out: one  *)
(* whose driver has blit_framebuffer, one that has the fallback.  The      *)
(* rectangle read lies within the framebuffer read and the rectangle       *)
(* written within the framebuffer written, neither is empty, and the       *)
(* nearest filter is used.                                                 *)
(***************************************************************************)

\* the rectangles of at least one pixel within a framebuffer of a size
RectsWithin(size) ==
    {r \in [x : 0..(size.w - 1), y : 0..(size.h - 1),
            w : 1..size.w, h : 1..size.h] :
        r.x + r.w <= size.w /\ r.y + r.h <= size.h}

\* BlitSourceRect: FullFlipY, or Pixel(rect, flip)
PathSources(size) ==
    {[kind |-> "FullFlipY", rect |-> RectFromSize(size), flip |-> "None"]}
      \cup {[kind |-> "Pixel", rect |-> rect, flip |-> flip] :
              rect \in RectsWithin(size), flip \in FlipSources}

\* the pixels of a rectangle
RectPixels(rect) ==
    (rect.x..(rect.x + rect.w - 1)) \X (rect.y..(rect.y + rect.h - 1))

\* the fallback path: tex_coords, then FallbackFramebufferBlitter::blit
\* with the destination as viewport
PathQuad(source, size, destination) ==
    LET tex_coords == IF source.kind = "FullFlipY"
                      THEN FullFlipYTexCoords(size)
                      ELSE PixelTexCoords(source.rect, source.flip)
    IN  [pixel \in RectPixels(destination) |->
           QuadTexel(tex_coords, destination,
                     <<pixel[1] - destination.x, pixel[2] - destination.y>>)]

\* the native path: gl.blit_framebuffer
PathNative(source, size, destination) ==
    LET box == IF source.kind = "FullFlipY"
               THEN <<0, size.h, size.w, 0>>
               ELSE PixelBlitBox(source.rect, source.flip)
    IN  [pixel \in RectPixels(destination) |->
           GlBlitTexel(box, BoxFromRect(destination), pixel)]

\* no framebuffer yet
PathIdle ==
    /\ bp_size = [w |-> 0, h |-> 0]
    /\ bp_destination = Rect(0, 0, 0, 0)
    /\ bp_source = None
    /\ bp_native = <<>>
    /\ bp_quad = <<>>

\* two framebuffers of one size and the rectangle to write, before the blit
PathInit ==
    /\ bp_size \in ImageSizes
    /\ bp_destination \in RectsWithin(bp_size)
    /\ bp_source = None
    /\ bp_native = <<>>
    /\ bp_quad = <<>>

\* FrameBufferBlitter::blit, on both contexts
PathBlit(source) ==
    /\ bp_source = None
    /\ bp_source' = Some(source)
    /\ bp_native' = PathNative(source, bp_size, bp_destination)
    /\ bp_quad' = PathQuad(source, bp_size, bp_destination)
    /\ UNCHANGED <<bp_size, bp_destination>>
    /\ UNCHANGED otherThanPath

PathNext == \E source \in PathSources(bp_size) : PathBlit(source)

(***************************************************************************)
(* Specifications.                                                         *)
(***************************************************************************)
BatchSpecInit ==
    /\ BatchInit
    /\ TexIdle
    /\ ParamIdle
    /\ BindIdle
    /\ FlipIdle
    /\ BuildIdle
    /\ QuadIdle
    /\ BlitImageIdle
    /\ ByteBufferIdle
    /\ TexDataIdle
    /\ AnimIdle
    /\ TexelIdle
    /\ SlotMapIdle
    /\ RunnerIdle
    /\ StepIdle
    /\ UnitIdle
    /\ WindowIdle
    /\ SamplersIdle
    /\ TokenIdle
    /\ UniformIdle
    /\ PathIdle

BatchSpec == BatchSpecInit /\ [][BatchNext]_vars

TexSpecInit ==
    /\ TexInit
    /\ BatchIdle
    /\ ParamIdle
    /\ BindIdle
    /\ FlipIdle
    /\ BuildIdle
    /\ QuadIdle
    /\ BlitImageIdle
    /\ ByteBufferIdle
    /\ TexDataIdle
    /\ AnimIdle
    /\ TexelIdle
    /\ SlotMapIdle
    /\ RunnerIdle
    /\ StepIdle
    /\ UnitIdle
    /\ WindowIdle
    /\ SamplersIdle
    /\ TokenIdle
    /\ UniformIdle
    /\ PathIdle

TexSpec == TexSpecInit /\ [][TexNext]_vars

SetSpecInit ==
    /\ ParamInit
    /\ ~blit_framebuffer
    /\ BatchIdle
    /\ TexIdle
    /\ BindIdle
    /\ FlipIdle
    /\ BuildIdle
    /\ QuadIdle
    /\ BlitImageIdle
    /\ ByteBufferIdle
    /\ TexDataIdle
    /\ AnimIdle
    /\ TexelIdle
    /\ SlotMapIdle
    /\ RunnerIdle
    /\ StepIdle
    /\ UnitIdle
    /\ WindowIdle
    /\ SamplersIdle
    /\ TokenIdle
    /\ UniformIdle
    /\ PathIdle

SetSpec == SetSpecInit /\ [][SetNext]_vars

ParamSpecInit ==
    /\ ParamInit
    /\ param_focus = "blend"
    /\ BatchIdle
    /\ TexIdle
    /\ BindIdle
    /\ FlipIdle
    /\ BuildIdle
    /\ QuadIdle
    /\ BlitImageIdle
    /\ ByteBufferIdle
    /\ TexDataIdle
    /\ AnimIdle
    /\ TexelIdle
    /\ SlotMapIdle
    /\ RunnerIdle
    /\ StepIdle
    /\ UnitIdle
    /\ WindowIdle
    /\ SamplersIdle
    /\ TokenIdle
    /\ UniformIdle
    /\ PathIdle

ParamSpec == ParamSpecInit /\ [][ParamNext]_vars

BindSpecInit ==
    /\ ParamInit
    /\ param_focus = "blend"
    /\ ~flip_default_framebuffer
    /\ BindInit
    /\ BatchIdle
    /\ TexUnitsIdle
    /\ FlipIdle
    /\ BuildIdle
    /\ QuadIdle
    /\ BlitImageIdle
    /\ ByteBufferIdle
    /\ TexDataIdle
    /\ AnimIdle
    /\ TexelIdle
    /\ SlotMapIdle
    /\ RunnerIdle
    /\ StepIdle
    /\ UnitIdle
    /\ WindowIdle
    /\ SamplersIdle
    /\ TokenIdle
    /\ UniformIdle
    /\ PathIdle

BindSpec == BindSpecInit /\ [][BindNext]_vars

FlipSpecInit ==
    /\ ParamInit
    /\ param_focus = "blend"
    /\ flip_default_framebuffer
    /\ FlipInit
    /\ BatchIdle
    /\ TexUnitsIdle
    /\ BuildIdle
    /\ QuadIdle
    /\ BlitImageIdle
    /\ ByteBufferIdle
    /\ TexDataIdle
    /\ AnimIdle
    /\ TexelIdle
    /\ SlotMapIdle
    /\ RunnerIdle
    /\ StepIdle
    /\ UnitIdle
    /\ WindowIdle
    /\ SamplersIdle
    /\ TokenIdle
    /\ UniformIdle
    /\ PathIdle

FlipSpec == FlipSpecInit /\ [][FlipNext]_vars

QuadSpecInit ==
    /\ QuadInit
    /\ BatchIdle
    /\ TexIdle
    /\ ParamIdle
    /\ BindIdle
    /\ FlipIdle
    /\ BuildIdle
    /\ BlitImageIdle
    /\ ByteBufferIdle
    /\ TexDataIdle
    /\ AnimIdle
    /\ TexelIdle
    /\ SlotMapIdle
    /\ RunnerIdle
    /\ StepIdle
    /\ UnitIdle
    /\ WindowIdle
    /\ SamplersIdle
    /\ TokenIdle
    /\ UniformIdle
    /\ PathIdle

QuadSpec == QuadSpecInit /\ [][QuadNext]_vars

BlitImageSpecInit ==
    /\ BlitImageInit
    /\ BatchIdle
    /\ TexIdle
    /\ ParamIdle
    /\ BindIdle
    /\ FlipIdle
    /\ BuildIdle
    /\ QuadIdle
    /\ ByteBufferIdle
    /\ TexDataIdle
    /\ AnimIdle
    /\ TexelIdle
    /\ SlotMapIdle
    /\ RunnerIdle
    /\ StepIdle
    /\ UnitIdle
    /\ WindowIdle
    /\ SamplersIdle
    /\ TokenIdle
    /\ UniformIdle
    /\ PathIdle

BlitImageSpec == BlitImageSpecInit /\ [][BlitImageNext]_vars

ByteBufferSpecInit ==
    /\ BatchIdle
    /\ TexUnitsIdle
    /\ ParamIdle
    /\ FlipIdle
    /\ BuildInit
    /\ ByteBufferInit
    /\ QuadIdle
    /\ BlitImageIdle
    /\ TexDataIdle
    /\ AnimIdle
    /\ TexelIdle
    /\ SlotMapIdle
    /\ RunnerIdle
    /\ StepIdle
    /\ UnitIdle
    /\ WindowIdle
    /\ SamplersIdle
    /\ TokenIdle
    /\ UniformIdle
    /\ PathIdle

ByteBufferSpec == ByteBufferSpecInit /\ [][ByteBufferNext]_vars

TexDataSpecInit ==
    /\ TexDataInit
    /\ BatchIdle
    /\ TexIdle
    /\ ParamIdle
    /\ BindIdle
    /\ FlipIdle
    /\ BuildInit
    /\ QuadIdle
    /\ BlitImageIdle
    /\ ByteBufferIdle
    /\ AnimIdle
    /\ TexelIdle
    /\ SlotMapIdle
    /\ RunnerIdle
    /\ StepIdle
    /\ UnitIdle
    /\ WindowIdle
    /\ SamplersIdle
    /\ TokenIdle
    /\ UniformIdle
    /\ PathIdle

TexDataSpec == TexDataSpecInit /\ [][TexDataNext]_vars

AnimSpecInit ==
    /\ AnimInit
    /\ BatchIdle
    /\ TexIdle
    /\ ParamIdle
    /\ BindIdle
    /\ FlipIdle
    /\ BuildIdle
    /\ QuadIdle
    /\ BlitImageIdle
    /\ ByteBufferIdle
    /\ TexDataIdle
    /\ TexelIdle
    /\ SlotMapIdle
    /\ RunnerIdle
    /\ StepIdle
    /\ UnitIdle
    /\ WindowIdle
    /\ SamplersIdle
    /\ TokenIdle
    /\ UniformIdle
    /\ PathIdle

AnimSpec == AnimSpecInit /\ [][AnimNext]_vars

TexelSpecInit ==
    /\ TexelInit
    /\ BatchIdle
    /\ TexIdle
    /\ ParamIdle
    /\ BindIdle
    /\ FlipIdle
    /\ BuildIdle
    /\ QuadIdle
    /\ BlitImageIdle
    /\ ByteBufferIdle
    /\ TexDataIdle
    /\ AnimIdle
    /\ SlotMapIdle
    /\ RunnerIdle
    /\ StepIdle
    /\ UnitIdle
    /\ WindowIdle
    /\ SamplersIdle
    /\ TokenIdle
    /\ UniformIdle
    /\ PathIdle

TexelSpec == TexelSpecInit /\ [][TexelNext]_vars

SlotMapSpecInit ==
    /\ SlotMapInit
    /\ BatchIdle
    /\ TexIdle
    /\ ParamIdle
    /\ BindIdle
    /\ FlipIdle
    /\ BuildIdle
    /\ QuadIdle
    /\ BlitImageIdle
    /\ ByteBufferIdle
    /\ TexDataIdle
    /\ AnimIdle
    /\ TexelIdle
    /\ RunnerIdle
    /\ StepIdle
    /\ UnitIdle
    /\ WindowIdle
    /\ SamplersIdle
    /\ TokenIdle
    /\ UniformIdle
    /\ PathIdle

SlotMapSpec == SlotMapSpecInit /\ [][SlotMapNext]_vars

RunnerSpecInit ==
    /\ RunnerInit
    /\ BatchIdle
    /\ TexIdle
    /\ ParamIdle
    /\ BindIdle
    /\ FlipIdle
    /\ BuildIdle
    /\ QuadIdle
    /\ BlitImageIdle
    /\ ByteBufferIdle
    /\ TexDataIdle
    /\ AnimIdle
    /\ TexelIdle
    /\ SlotMapIdle
    /\ StepIdle
    /\ UnitIdle
    /\ WindowIdle
    /\ SamplersIdle
    /\ TokenIdle
    /\ UniformIdle
    /\ PathIdle

RunnerSpec == RunnerSpecInit /\ [][RunnerNext]_vars

StepSpecInit ==
    /\ StepInit
    /\ BatchIdle
    /\ TexIdle
    /\ ParamIdle
    /\ BindIdle
    /\ FlipIdle
    /\ BuildIdle
    /\ QuadIdle
    /\ BlitImageIdle
    /\ ByteBufferIdle
    /\ TexDataIdle
    /\ AnimIdle
    /\ TexelIdle
    /\ SlotMapIdle
    /\ RunnerIdle
    /\ UnitIdle
    /\ WindowIdle
    /\ SamplersIdle
    /\ TokenIdle
    /\ UniformIdle
    /\ PathIdle

StepSpec == StepSpecInit /\ [][StepNext]_vars

UnitSpecInit ==
    /\ UnitInit
    /\ BatchIdle
    /\ TexIdle
    /\ ParamIdle
    /\ BindIdle
    /\ FlipIdle
    /\ BuildIdle
    /\ QuadIdle
    /\ BlitImageIdle
    /\ ByteBufferIdle
    /\ TexDataIdle
    /\ AnimIdle
    /\ TexelIdle
    /\ SlotMapIdle
    /\ RunnerIdle
    /\ StepIdle
    /\ WindowIdle
    /\ SamplersIdle
    /\ TokenIdle
    /\ UniformIdle
    /\ PathIdle

UnitSpec == UnitSpecInit /\ [][UnitNext]_vars

WindowSpecInit ==
    /\ WindowInit
    /\ BatchIdle
    /\ TexIdle
    /\ ParamIdle
    /\ BindIdle
    /\ FlipIdle
    /\ BuildIdle
    /\ QuadIdle
    /\ BlitImageIdle
    /\ ByteBufferIdle
    /\ TexDataIdle
    /\ AnimIdle
    /\ TexelIdle
    /\ SlotMapIdle
    /\ RunnerIdle
    /\ StepIdle
    /\ UnitIdle
    /\ SamplersIdle
    /\ TokenIdle
    /\ UniformIdle
    /\ PathIdle

WindowSpec == WindowSpecInit /\ [][WindowNext]_vars

SamplersSpecInit ==
    /\ SamplersInit
    /\ BatchIdle
    /\ TexIdle
    /\ ParamIdle
    /\ BindIdle
    /\ FlipIdle
    /\ BuildIdle
    /\ QuadIdle
    /\ BlitImageIdle
    /\ ByteBufferIdle
    /\ TexDataIdle
    /\ AnimIdle
    /\ TexelIdle
    /\ SlotMapIdle
    /\ RunnerIdle
    /\ StepIdle
    /\ UnitIdle
    /\ WindowIdle
    /\ TokenIdle
    /\ UniformIdle
    /\ PathIdle

SamplersSpec == SamplersSpecInit /\ [][SamplersNext]_vars

TokenSpecInit ==
    /\ TokenInit
    /\ BatchIdle
    /\ TexIdle
    /\ ParamIdle
    /\ BindIdle
    /\ FlipIdle
    /\ BuildIdle
    /\ QuadIdle
    /\ BlitImageIdle
    /\ ByteBufferIdle
    /\ TexDataIdle
    /\ AnimIdle
    /\ TexelIdle
    /\ SlotMapIdle
    /\ RunnerIdle
    /\ StepIdle
    /\ UnitIdle
    /\ WindowIdle
    /\ SamplersIdle
    /\ UniformIdle
    /\ PathIdle

TokenSpec == TokenSpecInit /\ [][TokenNext]_vars

UniformSpecInit ==
    /\ UniformInit
    /\ BatchIdle
    /\ TexIdle
    /\ ParamIdle
    /\ BindIdle
    /\ FlipIdle
    /\ BuildIdle
    /\ QuadIdle
    /\ BlitImageIdle
    /\ ByteBufferIdle
    /\ TexDataIdle
    /\ AnimIdle
    /\ TexelIdle
    /\ SlotMapIdle
    /\ RunnerIdle
    /\ StepIdle
    /\ UnitIdle
    /\ WindowIdle
    /\ SamplersIdle
    /\ TokenIdle
    /\ PathIdle

UniformSpec == UniformSpecInit /\ [][UniformNext]_vars

PathSpecInit ==
    /\ PathInit
    /\ BatchIdle
    /\ TexIdle
    /\ ParamIdle
    /\ BindIdle
    /\ FlipIdle
    /\ BuildIdle
    /\ QuadIdle
    /\ BlitImageIdle
    /\ ByteBufferIdle
    /\ TexDataIdle
    /\ AnimIdle
    /\ TexelIdle
    /\ SlotMapIdle
    /\ RunnerIdle
    /\ StepIdle
    /\ UnitIdle
    /\ WindowIdle
    /\ SamplersIdle
    /\ TokenIdle
    /\ UniformIdle

PathSpec == PathSpecInit /\ [][PathNext]_vars


(***************************************************************************)
(* Claims about the batched renderer, checked under BatchSpec.             *)
(***************************************************************************)
DrawData == [i \in DOMAIN gpu_draws |-> gpu_draws[i].data]

LastDrawVertices == SubSeq(drawn, Len(drawn) - last_op.n + 1, Len(drawn))

LastDrawOverflowed ==
    /\ last_op.kind = "draw"
    /\ ~panicked
    /\ last_op.n > buffer_size - Len(last_op.staged_before)

\* C1: the staging vector never holds more than the capacity given at
\* construction, and a draw whose vertices do not fit the remaining capacity
\* first submits the staged vertices in one physical draw and then stages
\* exactly its own vertices.
C1_StagingWithinCapacity ==
    /\ Len(unflushed) <= buffer_size
    /\ LastDrawOverflowed =>
          /\ Len(gpu_draws) = Len(last_op.draws_before) + 1
          /\ SubSeq(gpu_draws, 1, Len(last_op.draws_before)) = last_op.draws_before
          /\ gpu_draws[Len(gpu_draws)].data = last_op.staged_before
          /\ unflushed = LastDrawVertices

C1_Witness ==
    /\ LastDrawOverflowed
    /\ last_op.staged_before # <<>>
    /\ Len(unflushed) = buffer_size

\* C2: once the batch is dropped, the vertex data of its physical draws,
\* concatenated in submission order, is the concatenation of the slices
\* passed to draw, in call order.
C2_SubmittedEqualsDrawn ==
    batch_phase = "closed" => Flatten(DrawData) = drawn

C2_Witness ==
    /\ batch_phase = "closed"
    /\ ~panicked
    /\ Len(gpu_draws) >= 3
    /\ implicit_flushes >= 2

\* C3 as stated: once the vertices drawn in a batch exceed the capacity, the
\* number of implicit flushes is ceil(total / capacity) - 1.
C3_ImplicitFlushesExact ==
    Len(drawn) > buffer_size =>
        implicit_flushes = CeilDiv(Len(drawn), buffer_size) - 1

\* C3 as amended: once the vertices drawn in a batch exceed the capacity, the
\* number of implicit flushes is at least ceil(total / capacity) - 1, and it
\* is exactly that when every draw call passed the same number of vertices
\* and that number divides the capacity.
C3_ImplicitFlushesAtLeast ==
    Len(drawn) > buffer_size =>
        /\ implicit_flushes >= CeilDiv(Len(drawn), buffer_size) - 1
        /\ (\E k \in 1..buffer_size :
                draw_sizes = {k} /\ buffer_size % k = 0)
              => implicit_flushes = CeilDiv(Len(drawn), buffer_size) - 1

C3_Witness ==
    /\ Len(drawn) > buffer_size
    /\ \E k \in 1..buffer_size : draw_sizes = {k} /\ buffer_size % k = 0
    /\ buffer_size >= 2
    /\ implicit_flushes >= 2

C5_DropSubmitsEverything ==
    batch_phase = "closed" =>
        /\ unflushed = <<>>
        /\ \A v \in Range(drawn) :
              \E i \in DOMAIN gpu_draws : v \in Range(gpu_draws[i].data)

C5_Witness ==
    /\ batch_phase = "closed"
    /\ last_op.kind = "drop"
    /\ last_op.staged_before # <<>>
    /\ Len(gpu_draws) >= 2

\* the vertices are those of whole draw calls, in order: they begin where
\* a call began and end where a call ended
WholeSlices(data) ==
    data # <<>> =>
       /\ data[1] - 1 \in draw_ends \cup {0}
       /\ data[Len(data)] \in draw_ends
       /\ \A k \in DOMAIN data : data[k] = data[1] + k - 1

\* SpriteBatch: the index buffer is that of quads and every draw call is a
\* draw_sprite, which passes the 4 vertices of one sprite
SpriteBatch == indices = "Quad" /\ draw_sizes = {4}

\* vertex v of the batch is corner (v - 1) % 4 of sprite (v - 1) \div 4; in
\* data written at an offset of a vertex buffer, every vertex is at the
\* place of its corner within a group of 4
QuadAligned(offset, data) ==
    /\ Len(data) % 4 = 0
    /\ \A k \in DOMAIN data : (offset + k - 1) % 4 = (data[k] - 1) % 4

\* C37: the vertices of every physical draw, and the vertices staged, are
\* those of whole draw calls; in a sprite batch every physical draw has a
\* multiple of 4 vertices, the 4 vertices of each sprite are one aligned
\* group of 4 of the vertex buffer, and the draw reads the 6 indices of
\* every such group.
C37_DrawCallsNeverSplit ==
    /\ WholeSlices(unflushed)
    /\ \A i \in DOMAIN gpu_draws :
          /\ gpu_draws[i].data # <<>>
          /\ WholeSlices(gpu_draws[i].data)
    /\ SpriteBatch =>
          /\ QuadAligned(0, unflushed)
          /\ \A i \in DOMAIN gpu_draws :
                /\ QuadAligned(gpu_draws[i].offset, gpu_draws[i].data)
                /\ gpu_draws[i].len = 6 * (Len(gpu_draws[i].data) \div 4)

\* a sprite batch on a renderer whose capacity is not a multiple of 4: the
\* second sprite did not fit, the first was drawn alone, and the drop drew
\* the second
C37_Witness ==
    /\ SpriteBatch
    /\ buffer_size % 4 # 0
    /\ batch_phase = "closed"
    /\ ~panicked
    /\ Len(gpu_draws) = 2
    /\ implicit_flushes = 1
    /\ gpu_draws[2].data = <<5, 6, 7, 8>>


(***************************************************************************)
(* Claims about texture unit allocation, checked under TexSpec.            *)
(***************************************************************************)
\* the draw call in progress has run bind_textures to its end
BindingsDone == last_draw.kind = "draw" /\ ~last_draw.panicked

C7_OverLimitPanics ==
    (last_draw.kind = "draw" /\ last_draw.distinct > texture_unit_limit)
        => /\ last_draw.panicked
           /\ tex_panicked
           /\ ~last_draw.claimed_evicted
           /\ ~ENABLED DrawImpl

\* a draw call passing two distinct textures to a context of one unit panicked
C7_Witness ==
    /\ last_draw.kind = "draw"
    /\ last_draw.distinct > texture_unit_limit
    /\ last_draw.panicked
    /\ tex_panicked


(***************************************************************************)
(* Claims about the draw parameter mirror, checked under SetSpec and       *)
(* ParamSpec.                                                              *)
(***************************************************************************)
\* the value of the last call of the setter under study
LastValue == param_op.value[1]

\* C8, as stated: setting a draw parameter to the same value twice in a row
\* issues exactly one driver call, in the first of the two set calls, and
\* none in the second.
C8_OneCallThenNone ==
    param_repeat.repeated =>
        /\ param_repeat.first_calls = 1
        /\ param_calls = <<>>

\* C8, amended: of two set calls in a row that pass the same value to a draw
\* parameter, the first issues a driver call for every part of the
\* parameter in which the mirror differs from the value (none when the
\* mirror holds the value already, several for a feature whose enable flag
\* and value both change), and the second issues no driver call unless the
\* value is a NaN float, which is passed to the driver by every set call.
C8_RepeatedSet ==
    param_repeat.repeated =>
        /\ param_repeat.first_calls <= MostCalls(param_focus)
        /\ SelfEqual(param_focus, LastValue) => param_calls = <<>>
        /\ ~SelfEqual(param_focus, LastValue) => param_calls = <<param_focus>>

\* a value has been set twice in a row: the first call enabled the feature
\* and passed parts of its value to the driver, the second issued nothing
C8_Witness ==
    /\ param_repeat.repeated
    /\ param_repeat.first_calls >= 2
    /\ LastValue # None
    /\ param_calls = <<>>

\* C9, as stated: from the creation of the context on, and after every draw,
\* clear and blit, every mirrored draw parameter (the enable flag and the
\* value of blend, cull face, depth, stencil, scissor and polygon offset;
\* color mask, line width, dithering, viewport, clear color, clear depth and
\* clear stencil) equals the driver's value of it, the driver starting from
\* the initial state of OpenGL ES 2.
C9_MirrorEqualsDriver == gles_state = gl_state

\* a draw call with DrawParameters::default() has returned; the mirror holds
\* the dithering it asked for, off, and the driver still dithers
C9_DitheringLeftOn ==
    /\ param_op.kind = "draw"
    /\ ~gles_state.dithering
    /\ gl_state.dithering
    /\ ~gles_state.blend.enabled
    /\ ~gles_state.cull_face.enabled


(***************************************************************************)
(* Claims about the mirrored bindings, checked under BindSpec.             *)
(***************************************************************************)
\* C10, as stated: after any sequence of creations, writes, draws, clears,
\* blits and drops, the mirrored bound framebuffer, render buffer, buffer of
\* each kind, vertex array and program each equal the binding that is
\* current in the driver.
C10_BindingsMirrorDriver ==
    /\ bound_frame_buffer = gl_bindings.draw_frame_buffer
    /\ bound_frame_buffer = gl_bindings.read_frame_buffer
    /\ bound_render_buffer = gl_bindings.render_buffer
    /\ \A kind \in BufferKinds :
          bound_buffers[kind] = GlBoundBuffer(gl_bindings, kind)
    /\ bound_vertex_array = gl_bindings.vertex_array
    /\ bound_program = gl_program

\* a clear of one framebuffer has returned and the driver has another bound
\* for drawing: the clear went to the framebuffer created just before it
C10_ClearMissesTarget ==
    /\ bind_op.kind = "clear"
    /\ bound_frame_buffer = bind_op.frame_buffer
    /\ gl_bindings.draw_frame_buffer # bind_op.frame_buffer


(***************************************************************************)
(* Claims about the deletion of objects, checked under FlipSpec.           *)
(***************************************************************************)
\* C11, as stated: when an object is deleted, the mirror no longer names
\* its handle and the driver no longer has it bound; here for the
\* framebuffer and the render buffer that ScreenFlipper::framebuffer
\* deletes when the window has changed size.
C11_DeletedHandleUnnamed ==
    /\ ~flip_op.mirror_named
    /\ ~flip_op.driver_bound

\* C11: the flipper was made again with the names of the objects deleted;
\* the mirror took the framebuffer to be bound already, and the driver, on
\* which the delete had bound the default framebuffer, was given the
\* attachments of the new framebuffer with the default one bound.
C11_AttachedToDefault ==
    /\ flip_op.kind = "made"
    /\ flip_op.mirror_named
    /\ bound_frame_buffer = flipper.framebuffer
    /\ gl_bindings.draw_frame_buffer = 0
    /\ bound_render_buffer = flipper.depth_stencil
    /\ gl_bindings.render_buffer = 0


(***************************************************************************)
(* Claims about the quad index buffer, checked under QuadSpec.             *)
(***************************************************************************)
\* the k-th group of six indices (k from 0) is [0,1,2,0,2,3] offset by 4k
QuadGroupsDecode ==
    \A k \in 0..(Len(quad_array) \div 6 - 1) :
      SubSeq(quad_array, 6 * k + 1, 6 * k + 6)
        = <<4 * k, 4 * k + 1, 4 * k + 2, 4 * k, 4 * k + 2, 4 * k + 3>>

\* C12, as stated: for a vertex count V that is a multiple of 4, the quad
\* index sequence generated for V has length V / 4 * 6 and its k-th group
\* of six is [0,1,2,0,2,3] offset by 4k.
C12_QuadIndicesForVertices ==
    (quad_state = "made" /\ quad_size % 4 = 0) =>
        /\ Len(quad_array) = (quad_size \div 4) * 6
        /\ QuadGroupsDecode

\* C12: a buffer made for V vertices, and a draw of no more than V vertices
\* that reads indices past the end of the buffer
C12_DrawReadsPastEnd ==
    /\ quad_state = "made"
    /\ quad_size % 4 = 0
    /\ QuadGroupsDecode
    /\ quad_draw.vertices % 4 = 0
    /\ quad_draw.vertices <= quad_size
    /\ quad_draw.len > Len(quad_array)


(***************************************************************************)
(* Claims about the copy of the fake default framebuffer, checked under    *)
(* BlitImageSpec.                                                          *)
(***************************************************************************)
\* the image mirrored along Y: row r shows row H - 1 - r, columns unchanged
MirrorY(image) ==
    [pixel \in Pixels(blit_size) |->
       image[<<pixel[1], blit_size.h - 1 - pixel[2]>>]]

FullFlipY == [kind |-> "FullFlipY", flip |-> "None"]

\* C13: a FullFlipY blit writes the image it reads mirrored once along Y,
\* with or without the fallback, and two of them in a row write the image
\* the first one read.
C13_FlipBlitMirrorsOnce ==
    \A i \in DOMAIN blit_sources :
      blit_sources[i] = FullFlipY =>
        /\ blit_images[i + 1] = MirrorY(blit_images[i])
        /\ (i > 1 /\ blit_sources[i - 1] = FullFlipY) =>
              blit_images[i + 1] = blit_images[i - 1]

\* C13: two FullFlipY blits in a row on the fallback path, of an image of
\* more than one row
C13_Witness ==
    /\ blit_fallback
    /\ blit_size.h > 1
    /\ Len(blit_sources) >= 2
    /\ blit_sources[Len(blit_sources)] = FullFlipY
    /\ blit_sources[Len(blit_sources) - 1] = FullFlipY
    /\ blit_images[Len(blit_images)] = blit_images[Len(blit_images) - 2]
    /\ blit_images[Len(blit_images)] # blit_images[Len(blit_images) - 1]


(***************************************************************************)
(* Claims about writes to buffers, checked under ByteBufferSpec.           *)
(***************************************************************************)
\* C14, as stated: a write whose offset plus data length exceeds the
\* length of the buffer panics before any driver call and leaves the
\* contents of the buffer and the mirror as they were; a write that stays
\* within the buffer does not panic.
C14_WriteBeyondPanics ==
    write_op.kind = "write" =>
        IF write_op.exceeds
        THEN /\ write_op.panicked
             /\ write_op.calls = 0
             /\ ~write_op.bytes_changed
             /\ ~write_op.mirror_changed
        ELSE ~write_op.panicked

\* C14: a write beyond the end of the buffer that did not panic and
\* changed the bytes of the buffer
C14_WrappedWriteLands ==
    /\ write_op.kind = "write"
    /\ write_op.exceeds
    /\ ~write_op.panicked
    /\ write_op.bytes_changed


(***************************************************************************)
(* Claims about the pixel data of textures, checked under TexDataSpec.     *)
(***************************************************************************)
\* C15, as stated: a creation with data, a write and a write_rect panic,
\* and upload nothing, when the length of the slice is not width * height *
\* stride of the format given.
C15_LengthMismatchPanics ==
    (tex_op.kind # "none" /\ tex_op.given /\ ~tex_op.length_matches) =>
        /\ tex_op.panicked
        /\ tex_op.uploads = 0

\* C15: a slice of another length than width * height * stride was
\* uploaded, by a creation and by a write
C15_WrappedAreaUploads ==
    /\ tex_op.kind \in {"new", "write_rect"}
    /\ tex_op.given
    /\ ~tex_op.length_matches
    /\ tex_op.same_format
    /\ ~tex_op.panicked
    /\ tex_op.uploads = 1

\* C16, as stated: a write or write_rect given another pixel format than
\* the texture was made with, in channels or in layout, panics and uploads
\* nothing; the format of the texture never changes.
C16_FormatChangePanics ==
    /\ (tex_op.kind \in {"write", "write_rect"} /\ ~tex_op.same_format) =>
          /\ tex_op.panicked
          /\ tex_op.uploads = 0
    /\ tex_state = "alive" => tex_gl_format = gl(tex_format)

\* C16: a texture made with one layout was written, with data of the right
\* length, in another layout of the same channels
C16_LayoutChanged ==
    /\ tex_state = "alive"
    /\ tex_op.kind = "write_rect"
    /\ tex_op.length_matches
    /\ ~tex_op.same_format
    /\ ~tex_op.panicked
    /\ tex_op.uploads = 1
    /\ tex_gl_format[1] = gl(tex_format)[1]
    /\ tex_gl_format[2] # gl(tex_format)[2]


(***************************************************************************)
(* Claims about the Animator, checked under AnimSpec.                      *)
(***************************************************************************)
\* sequence 1 holds a single animation of 3 frames of the kind given, and
\* the Animator has played nothing else
Plays3Frames(kind) ==
    /\ store[1] = <<Animation(3, kind, FrameTime)>>
    /\ ~anim_played

\* C17: an Animator on a Loop of 3 frames with frame_time 0.1, updated with
\* Delta 0.04 four times, shows frame 0 until the fourth update, where the
\* accumulated time reaches 0.12: that update selects frame 1 and leaves
\* the remainder 0.02 in the accumulator.  Every update that advances the
\* frame of an animation takes exactly one frame_time off the accumulated
\* time.
C17_LoopRollover ==
    /\ (Plays3Frames("Loop") /\ anim_deltas = <<4, 4, 4, 4>>
          /\ anim_updates = 4) =>
          /\ animator.frame = FrameOf(Frame(1, FALSE))
          /\ drawable.frame = 1
          /\ anim_shown = <<0, 1>>
          /\ anim_op.before + anim_op.delta = 12
          /\ animator.elapsed = 2
    /\ (Plays3Frames("Loop") /\ anim_updates \in 1..3
          /\ anim_deltas = [i \in 1..anim_updates |-> 4]) =>
          /\ animator.frame = FrameOf(FrameDefault)
          /\ animator.elapsed < FrameTime
    /\ anim_op.advanced =>
          /\ anim_op.before + anim_op.delta >= FrameTime
          /\ anim_op.after = anim_op.before + anim_op.delta - FrameTime
          /\ animator.elapsed = anim_op.after

\* C17: the fourth update of 0.04 has selected frame 1 of the Loop and left
\* the remainder 0.02
C17_Witness ==
    /\ Plays3Frames("Loop")
    /\ anim_deltas = <<4, 4, 4, 4>>
    /\ anim_updates = 4
    /\ anim_op.advanced
    /\ anim_op.from = 0
    /\ anim_op.to = 1
    /\ animator.elapsed = 2

\* the i-th frame index of the walk 0, 1, 2, 1, 0, 1, 2, ...
PingPongIndex(i) == <<0, 1, 2, 1>>[((i - 1) % 4) + 1]

\* C18: a PingPong animation of 3 frames shows the frame indices 0, 1, 2,
\* 1, 0, 1, 2, ... for as long as it is updated: every advance moves by one
\* index, no index is shown twice in a row, and the walk turns round at
\* the indices 0 and 2 and nowhere else.
C18_PingPongWalk ==
    Plays3Frames("PingPong") =>
        /\ \A i \in DOMAIN anim_shown : anim_shown[i] = PingPongIndex(i)
        /\ \A i \in DOMAIN anim_shown :
             i > 2 =>
               ((anim_shown[i] - anim_shown[i-1]
                   # anim_shown[i-1] - anim_shown[i-2])
                  <=> anim_shown[i-1] \in {0, 2})
        /\ ~anim_panicked

\* C18: the walk has gone up, down and up again
C18_Witness ==
    /\ Plays3Frames("PingPong")
    /\ Len(anim_shown) >= 7
    /\ SubSeq(anim_shown, 1, 7) = <<0, 1, 2, 1, 0, 1, 2>>

\* the animation the Animator plays
CurrentAnimation == StoreAt(animator.animation)

\* the Animator and the Drawable hold frames of the current animation
FrameIndexValid ==
    /\ animator.frame.state = "Frame" =>
          animator.frame.frame.index \in 0..(CurrentAnimation.frames - 1)
    /\ drawable.frame \in 0..(StoreAt(drawable.animation).frames - 1)

\* C38: for every animation of at least one frame and every kind, after
\* any number of updates the frame index selected is an index of a frame
\* of the current animation; no update takes the u8 index below 0 or past
\* the frames, also when the animation has one frame only.
C38_FrameIndexValid ==
    /\ ~anim_panicked
    /\ FrameIndexValid

\* an Animator that plays one animation of one frame of kind PingPong
\* showed frame 0 and the update that came one frame_time later computed
\* the index 0 - 1
C38_OneFramePingPongUnderflows ==
    /\ anim_panicked
    /\ ~anim_played
    /\ CurrentAnimation = Animation(1, "PingPong", FrameTime)
    /\ animator.frame = FrameOf(FrameDefault)
    /\ anim_shown = <<0>>

\* C39: a sequence requested with play_deferred changes nothing but the
\* request; while a request is pending, an update made while a frame is
\* showing and the accumulated time stays below the frame_time of the
\* current animation leaves the request, the animation, the frame and the
\* Drawable as they are, and the first update at which the accumulated
\* time reaches that frame_time, or the next update when the Animator is
\* Started or Ended, shows the first frame of the first animation of the
\* sequence requested and clears the request; no other step clears it.
C39_DeferredAppliedOnTime ==
    [][LET next == animator.next_sequence
           due  == \/ animator.frame.state # "Frame"
                   \/ animator.elapsed + anim_op'.delta
                        >= CurrentAnimation.frame_time
       IN  /\ (anim_updates' = anim_updates + 1 /\ next # None) =>
                /\ ~anim_panicked'
                /\ IF due
                   THEN /\ animator'.animation = AnimationKey(next[1], 0)
                        /\ animator'.frame = FrameOf(FrameDefault)
                        /\ animator'.next_sequence = None
                        /\ drawable' = [animation |-> AnimationKey(next[1], 0),
                                        frame |-> 0]
                   ELSE /\ animator'.next_sequence = next
                        /\ animator'.animation = animator.animation
                        /\ animator'.frame = animator.frame
                        /\ drawable' = drawable
           /\ anim_updates' = anim_updates =>
                /\ drawable' = drawable
                /\ next # None => animator'.next_sequence # None
                /\ anim_op'.kind = "play_deferred" =>
                      \E sequence \in AnimationSequenceKeys :
                         /\ sequence # animator.animation.sequence
                         /\ animator' = [animator EXCEPT
                                           !.next_sequence = Some(sequence)]
      ]_vars

\* sequence 2 was requested while frame 0 of sequence 1 was showing; the
\* request stayed pending while 0.08 was accumulated, and the update that
\* made it 0.12 showed frame 0 of sequence 2 and cleared the time
C39_Witness ==
    /\ anim_op.kind = "update"
    /\ anim_op.before = 8
    /\ anim_op.delta = 4
    /\ anim_op.after = 0
    /\ anim_deltas = <<4, 4, 4, 4>>
    /\ anim_updates = 4
    /\ animator.animation = AnimationKey(2, 0)
    /\ animator.frame = FrameOf(FrameDefault)
    /\ animator.next_sequence = None
    /\ drawable = [animation |-> AnimationKey(2, 0), frame |-> 0]
    /\ anim_shown = <<0, 0>>

\* what C40 says of an update but for the time: an update moves on to the
\* next animation of the sequence, or ends the sequence, only when the
\* last frame of an animation of kind Single was showing; it ends the
\* sequence when that animation is the last of the sequence and moves on
\* when it is not; and an update of an Animator that is Ended and has no
\* request pending leaves the Animator and the Drawable as they are
SequenceSteps(reached) ==
    /\ (anim_op.moved \/ anim_op.ended) =>
          /\ anim_op.single_last
          /\ ~anim_op.pending
          /\ reached
          /\ anim_op.ended <=> anim_op.last_in_sequence
    /\ anim_op.from_ended => anim_op.same

\* C40 as stated: an Animator moves on to the next animation of its
\* sequence only when the current animation is of kind Single and its
\* last frame has been shown for a full frame_time; after the last
\* animation ends so the Animator is Ended, and every further update
\* leaves it and the Drawable unchanged until another sequence is asked
\* for.
C40_LastFrameShownInFull ==
    SequenceSteps(anim_op.shown_for >= FrameTime)

\* C40 as amended: the Animator moves on, or ends, at the first update at
\* which the time it has accumulated, the remainder carried over from
\* earlier frames included, reaches frame_time while the last frame of a
\* Single animation is showing; the rest as stated.
C40_MovesOnAtAccumulatedTime ==
    SequenceSteps(anim_op.before + anim_op.delta >= FrameTime)

\* the Single animation of sequence 2 showed its last frame for 0.04 only,
\* 0.06 having been carried over, when the Animator moved on to the Loop
C40_Witness ==
    /\ anim_op.moved
    /\ anim_op.single_last
    /\ anim_op.shown_for < FrameTime
    /\ anim_op.before + anim_op.delta >= FrameTime
    /\ animator.animation = AnimationKey(2, 1)
    /\ animator.frame = FrameOf(FrameDefault)
    /\ drawable = [animation |-> AnimationKey(2, 1), frame |-> 0]

\* every update selects a frame of the current animation unless the
\* animation played has one frame and is of kind PingPong
C38_ValidButOneFramePingPong ==
    /\ FrameIndexValid
    /\ anim_panicked =>
          CurrentAnimation = Animation(1, "PingPong", FrameTime)


(***************************************************************************)
(* Claims about texture regions, checked under TexelSpec.                  *)
(***************************************************************************)
\* the f32 nearest to a / b, for whole numbers a and b
Quotient(a, b) == Fl(a, b)

\* the quad with the corners (x/W, y/H) and ((x+w)/W, (y+h)/H), each the
\* f32 nearest to the quotient, in the order of Rect::points
QuotientQuad ==
    LET l == Quotient(region_pixels.x, region_size.w)
        t == Quotient(region_pixels.y, region_size.h)
        r == Quotient(region_pixels.x + region_pixels.w, region_size.w)
        b == Quotient(region_pixels.y + region_pixels.h, region_size.h)
    IN  <<<<l, t>>, <<l, b>>, <<r, b>>, <<r, t>>>>

\* the distance of the f32 v from a / b is at most 2^(2 - MantissaBits)
Near(v, a, b) ==
    LET diff == v.n * b - a * v.d
    IN  (IF diff < 0 THEN -diff ELSE diff) * 2^(MantissaBits - 2) <= v.d * b

\* a / b is an f32
ExactQuotient(a, b) == Quotient(a, b) = Q(a, b)

\* the far edge of a region from a to a + len of a texture of the size
\* given, as the way named yields it
FarEdge(way, a, len, size) ==
    IF way = "TexelsBox2D"
    THEN Quotient(a + len, size)
    ELSE F32Add(Quotient(a, size), Quotient(len, size))

\* C19, as stated: the texel quad of a region given in pixels, as a
\* normalized rectangle or as a normalized box has the corners (x/W, y/H)
\* and ((x+w)/W, (y+h)/H), and is the same quad for the three.
C19_TexelQuadExact ==
    \A way \in {"Pixels", "TexelsRect", "TexelsBox2D"} :
        texel_quads[way] # NoQuad => texel_quads[way] = QuotientQuad

\* C19, amended: whichever way the region is handed over, the quad is the
\* corners (left, top), (left, bottom), (right, bottom), (right, top) with
\* left = x/W and top = y/H in f32.  The far corner is ((x+w)/W, (y+h)/H)
\* in f32 for a box of normalized corners, and the f32 sums x/W + w/W and
\* y/H + h/H for a region in pixels, a normalized rectangle and a box made
\* from one: the same quad for these, and one that is near the quotients
\* and equal to them where the quotients of the origin and the size are f32
\* numbers.  The whole texture as Full is the quad of its pixels.
C19_TexelQuadRounded ==
    /\ \A way \in RegionWays :
         texel_quads[way] # NoQuad =>
           LET quad  == texel_quads[way]
               right == FarEdge(way, region_pixels.x, region_pixels.w,
                                region_size.w)
               below == FarEdge(way, region_pixels.y, region_pixels.h,
                                region_size.h)
           IN  /\ quad[1] = QuotientQuad[1]
               /\ quad = <<quad[1], <<quad[1][1], below>>,
                           <<right, below>>, <<right, quad[1][2]>>>>
               /\ Near(right, region_pixels.x + region_pixels.w,
                       region_size.w)
               /\ Near(below, region_pixels.y + region_pixels.h,
                       region_size.h)
               /\ (/\ ExactQuotient(region_pixels.x, region_size.w)
                   /\ ExactQuotient(region_pixels.w, region_size.w)
                   /\ ExactQuotient(region_pixels.y, region_size.h)
                   /\ ExactQuotient(region_pixels.h, region_size.h))
                    => quad = QuotientQuad
    /\ \A one \in RegionWays, other \in RegionWays \ {"TexelsBox2D"} :
         (/\ one # "TexelsBox2D"
          /\ texel_quads[one] # NoQuad
          /\ texel_quads[other] # NoQuad)
            => texel_quads[one] = texel_quads[other]

\* C19: the quad of a region in pixels is that of its normalized rectangle
\* and differs from that of its normalized box, in the far corner only
C19_Witness ==
    /\ texel_quads["Pixels"] # NoQuad
    /\ texel_quads["TexelsRect"] = texel_quads["Pixels"]
    /\ texel_quads["TexelsBox2D"] = QuotientQuad
    /\ texel_quads["TexelsBox2D"] # texel_quads["Pixels"]
    /\ texel_quads["TexelsBox2D"][1] = texel_quads["Pixels"][1]


(***************************************************************************)
(* Claims about PersistentSlotMap, checked under SlotMapSpec.              *)
(***************************************************************************)
\* C20: after any sequence of inserts, every key has been given one slot
\* only, so an insert under a key already present returns the slot of its
\* first insert, and adds no slot; every slot returned is valid and holds
\* the value last inserted under its key; no two keys have the same slot.
C20_InsertKeepsSlots ==
    /\ \A key \in SlotKeys :
         /\ Cardinality(slot_returned[key]) <= 1
         /\ \A slot \in slot_returned[key] :
              /\ SlotValid(slots, slot)
              /\ SlotMapIndex(slots, slot) = slot_latest[key]
              /\ KeyToSlotGet(key_to_slot, key) = Some(slot)
    /\ \A one \in SlotKeys, other \in SlotKeys :
         one # other => slot_returned[one] \cap slot_returned[other] = {}
    /\ Len(slots) = Cardinality({key \in SlotKeys : slot_returned[key] # {}})
    /\ slot_op.kind = "insert" =>
         /\ slot_returned[slot_op.key] = {slot_op.slot}
         /\ SlotMapIndex(slots, slot_op.slot) = slot_op.value

\* C20: the first of several keys has been given another value and has
\* kept its slot
C20_Witness ==
    /\ slot_op.kind = "insert"
    /\ slot_op.present
    /\ slot_op.previous # slot_op.value
    /\ slot_op.slot = 0
    /\ Len(slots) >= 2
    /\ SlotMapIndex(slots, 0) = slot_op.value


(***************************************************************************)
(* Claims about SystemRunner, checked under RunnerSpec.                    *)
(***************************************************************************)
\* C21: a run calls the systems in the order of their indices, each once
\* at most, and each reads the message as the systems before it have left
\* it.  A run goes on only while no system has left Exit set; it returns
\* false right after the first system that leaves Exit set, and true when
\* every system has run and none has left Exit set.
C21_RunInOrderUntilExit ==
    /\ run_ran = [i \in 1..Len(run_ran) |-> i]
    /\ Len(run_ran) <= Len(systems)
    /\ \A i \in DOMAIN run_ran :
         /\ run_seen[i] = [j \in 1..(i - 1) |-> j]
         /\ run_exits[i] => i = Len(run_ran)
    /\ run_next > 0 =>
         /\ Len(run_ran) = run_next - 1
         /\ \A i \in DOMAIN run_ran : ~run_exits[i]
         /\ run_result = "none"
    /\ run_result = "false" =>
         /\ run_next = 0
         /\ run_ran # <<>>
         /\ run_exits[Len(run_ran)]
         /\ exit_resource = Some(TRUE)
    /\ run_result = "true" =>
         /\ run_next = 0
         /\ Len(run_ran) = Len(systems)
         /\ \A i \in DOMAIN run_ran : ~run_exits[i]

\* C21: a run has stopped after the second of three systems, the first to
\* leave Exit set, which had read what the first wrote
C21_Witness ==
    /\ run_result = "false"
    /\ Len(systems) = 3
    /\ systems[1] = "clear"
    /\ run_ran = <<1, 2>>
    /\ run_seen = << <<>>, <<1>> >>
    /\ run_exits = <<FALSE, TRUE>>


(***************************************************************************)
(* The sampling parameters of textures without sampler objects, checked    *)
(* under TexSpec.                                                          *)
(***************************************************************************)
\* C22, as stated: without sampler objects, when bind_textures has returned
\* for a draw call, the driver's filter and wrap parameters of every
\* texture the call passes with one sampler state are that sampler state.
C22_FallbackSamplingApplied ==
    (~sampler_objects /\ last_draw.kind = "draw" /\ ~last_draw.panicked) =>
        last_draw.sampled

\* C22: a draw call goes ahead while a texture it passes keeps the
\* parameters bind_sampling_data gave it for another sampler state
C22_StaleSampling ==
    /\ ~sampler_objects
    /\ last_draw.kind = "draw"
    /\ ~last_draw.panicked
    /\ last_draw.applied
    /\ last_draw.stale

\* what a vertex array of the driver records is what draw descriptor d was
\* created with: its index buffer, and the pointers into its vertex buffer
RecordedIn(vertex_array, d) ==
    /\ gl_bindings.element_buffers[vertex_array] = descriptors[d].index
    /\ descriptors[d].vertex # 0
          => gl_bindings.attrib_buffers[vertex_array] = descriptors[d].vertex

\* C23, as stated: with vertex array objects supported, the vertex array of
\* every draw descriptor that is alive records the index buffer and the
\* attribute pointers the descriptor was created with, whatever buffers were
\* created, written or dropped and whatever descriptors were created since.
C23_VertexArraysKeepBindings ==
    vertex_array_objects => \A d \in LiveDescriptors : RecordedIn(d, d)

\* C23: a draw call has bound the vertex array of its descriptor, and the
\* index buffer of that vertex array is not the one of the descriptor
C23_DrawWithOtherIndexBuffer ==
    /\ vertex_array_objects
    /\ bind_op.kind = "draw"
    /\ bound_vertex_array \in LiveDescriptors
    /\ gl_bindings.vertex_array = bound_vertex_array
    /\ descriptors[bound_vertex_array].index # 0
    /\ gl_bindings.element_buffers[bound_vertex_array]
          \notin {0, descriptors[bound_vertex_array].index}

\* C24, as stated: without vertex array objects, when a draw call has bound
\* its descriptor (the one the cache names as current), the driver's
\* element array buffer and attribute pointers are those of that descriptor.
C24_FallbackDrawBindings ==
    (~vertex_array_objects /\ bind_op.kind = "draw")
        => RecordedIn(0, draw_descriptor_cache.current)

\* C24: a draw call through a descriptor that the cache named current
\* already has left the driver with the element array buffer that a buffer
\* created since the descriptor's last draw is bound to
C24_DrawSkipsRebinding ==
    /\ ~vertex_array_objects
    /\ bind_op.kind = "draw"
    /\ draw_descriptor_cache.current \in LiveDescriptors
    /\ descriptors[draw_descriptor_cache.current].index # 0
    /\ gl_bindings.element_buffers[0]
          # descriptors[draw_descriptor_cache.current].index
    /\ gl_bindings.element_buffers[0] \notin HeldBuffers
    /\ gl_bindings.element_buffers[0] # 0

\* C25, as stated: the indices a flush of a batch of quads requests, 6 for
\* every 4 vertices staged, are never more than the indices stored in the
\* quad index buffer, for every count of vertices up to the size the buffer
\* was made with, which the capacity of the batch allows.
C25_FlushWithinQuadIndices ==
    quad_state = "made" => quad_draw.len <= Len(quad_array)

\* C25: a buffer made with a size that is a multiple of 4 and of 6, as the
\* 65532 of the plugin is, holds whole quads only, and a flush of as many
\* vertices as that size requests more indices than it holds
C25_FlushPastQuadIndices ==
    /\ quad_state = "made"
    /\ quad_size > 0
    /\ quad_size % 12 = 0
    /\ Len(quad_array) = quad_size
    /\ quad_draw.vertices = quad_size
    /\ quad_draw.len = (quad_size \div 4) * 6
    /\ quad_draw.len > Len(quad_array)

\* the one physical draw of a flush of the vertices staged before the last
\* operation: written at offset 0 of the slot that was current
FlushedDraw ==
    [slot |-> last_op.slot_before, offset |-> 0,
     data |-> last_op.staged_before,
     len |-> BatchIndicesLen(indices, Len(last_op.staged_before))]

\* the last operation called flush: the drop of a batch, or a draw call
\* whose vertices did not fit
Flushed ==
    \/ last_op.kind = "drop"
    \/ /\ last_op.kind = "draw"
       /\ DrawAssertion(last_op.n,
                        [vec_capacity |-> vec_capacity])
       /\ last_op.n > vec_capacity - Len(last_op.staged_before)

\* C26: a flush with nothing staged adds no write and no draw and leaves
\* the current slot alone; a flush with vertices staged adds exactly one
\* write and draw, of those vertices at offset 0 of the slot that was
\* current, leaves of the staging vector only what the draw call pushes
\* after it, and moves the current slot to the next one modulo the number
\* of slots, so that the draws of a batch take the slots in round-robin
\* order.
C26_FlushUsesOneSlot ==
    /\ (Flushed /\ ~panicked) =>
          IF last_op.staged_before = <<>>
          THEN /\ gpu_draws = last_op.draws_before
               /\ current_buffer = last_op.slot_before
          ELSE /\ gpu_draws = Append(last_op.draws_before, FlushedDraw)
               /\ current_buffer = (last_op.slot_before + 1) % buffer_count
               /\ Len(unflushed) = last_op.n
    /\ \A i \in 1..(Len(gpu_draws) - 1) :
          gpu_draws[i + 1].slot = (gpu_draws[i].slot + 1) % buffer_count
    /\ (gpu_draws # <<>> /\ ~panicked) =>
          current_buffer
            = (gpu_draws[Len(gpu_draws)].slot + 1) % buffer_count

\* the drop of a batch on a ring of two slots has flushed the vertices that
\* were staged on the slot after the one of the flush before, and the
\* current slot is again the slot of that first flush
C26_Witness ==
    /\ buffer_count = 2
    /\ last_op.kind = "drop"
    /\ last_op.staged_before # <<>>
    /\ Len(last_op.draws_before) = 1
    /\ gpu_draws = Append(last_op.draws_before, FlushedDraw)
    /\ gpu_draws[1].slot # gpu_draws[2].slot
    /\ current_buffer = gpu_draws[1].slot
    /\ unflushed = <<>>
    /\ ~panicked


(***************************************************************************)
(* Claims about the order of driver calls and mirror writes, checked under *)
(* StepSpec.                                                               *)
(***************************************************************************)
\* C27, as stated: a step writes a new value to a field of the mirror, the
\* current-descriptor token of the fallback draw descriptor included, only
\* when the driver call that makes that value current has been issued
\* before the step.
C27_MirrorAfterDriver ==
    [][\A field \in MirrorFields :
          step_state'[field] # step_state[field]
            => DriverIs(step_gl, field, step_state'[field])]_vars

\* C27: in the middle of the bind of a fallback draw descriptor the mirror
\* names the descriptor as current, bind_buffers is still to be called, and
\* the driver has the index buffer of another descriptor bound
C27_TokenBeforeBindings ==
    /\ step_op.name = "bind"
    /\ step_state["current"] = step_op.value
    /\ step_pc # <<>>
    /\ Head(step_pc) = Call("bind_buffers", step_op.value)
    /\ ~DriverHasDescriptor(step_gl, step_op.value)
    /\ step_gl["ELEMENT_ARRAY_BUFFER"]
         # StepDescriptors[step_op.value].index


(***************************************************************************)
(* Claims about the texture units of a context, checked under UnitSpec.    *)
(***************************************************************************)
\* the operations of textures and of draw calls, as opposed to those of the
\* flipper and of the blitter
OrdinaryUnitOps == {"new", "write", "draw", "drop"}

\* C28: when the default framebuffer is flipped and the driver cannot blit
\* framebuffers, texture_unit_limit is the driver's maximum minus one, and
\* no creation, write or drop of a texture and no texture binding of a draw
\* call binds or unbinds a texture on the unit of index texture_unit_limit,
\* which keeps the draw texture of the flipper.
C28_ReservedUnitUntouched ==
    (unit_flip /\ ~unit_blit) =>
        /\ unit_limit = unit_max - 1
        /\ unit_op.kind \in OrdinaryUnitOps
             => /\ unit_limit \notin unit_op.touched
                /\ unit_gl_bound[unit_limit] = DrawTexture

\* with one unit left for draw calls, a draw call has bound its texture on
\* unit 0 in place of the texture that was there, and the unit set aside
\* still has the draw texture
C28_Witness ==
    /\ unit_flip
    /\ ~unit_blit
    /\ unit_max = 2
    /\ unit_limit = 1
    /\ unit_live = Textures
    /\ unit_op.kind = "draw"
    /\ unit_op.touched = {0}
    /\ unit_gl_bound[0] \in Textures
    /\ unit_gl_bound[1] = DrawTexture

\* C29, as stated: every index an operation uses on texture_units is below
\* MAX_TEXTURES, for every maximum the driver reports and every combination
\* of the flip setting and the blit capability.
C29_UnitIndexInBounds ==
    \A i \in unit_op.indexed : i < MAX_TEXTURES

\* C29: on a driver of 32 units that cannot blit framebuffers, with no unit
\* set aside, the first blit from a texture indexes texture_units with the
\* unit the fallback blitter starts with, 32, and panics
C29_BlitIndexesPastTable ==
    /\ unit_max = MAX_TEXTURES
    /\ ~unit_flip
    /\ ~unit_blit
    /\ unit_limit = MAX_TEXTURES
    /\ unit_op.kind = "blit"
    /\ unit_op.indexed = {MAX_TEXTURES}
    /\ unit_op.panicked


(***************************************************************************)
(* Claims about the default framebuffer of a window, checked under         *)
(* WindowSpec.                                                             *)
(***************************************************************************)
\* an operation that draws to, clears or reads the default framebuffer
\* through a handle while the default framebuffer is flipped
OnFlippedDefault ==
    /\ win_flip
    /\ win_op.kind \in {"draw", "clear", "read"}

\* C30, as stated: a draw, clear or read on the default framebuffer of a
\* flipping context goes to the fake framebuffer, and the fake framebuffer
\* then has the size of the window as asked for the current frame, also
\* through a handle made before the window was resized.
C30_FakeFramebufferHasWindowSize ==
    OnFlippedDefault =>
        /\ win_op.fb.target = "fake"
        /\ win_op.fb.size = default_framebuffer_size(win_cached, win_surface)

\* C30: a handle made in an earlier frame draws, after the window was
\* resized and the frame presented, to a fake framebuffer that still has
\* the size the window had
C30_StaleFakeFramebuffer ==
    /\ OnFlippedDefault
    /\ win_op.kind = "draw"
    /\ win_op.handle[1].frame < win_swaps
    /\ win_op.fb.target = "fake"
    /\ win_cached = Some(win_surface)
    /\ win_op.fb.size # win_surface

SamplersMade ==
    UNION {Range(so_made[state]) : state \in SamplerObjectStates}

\* C32: with sampler objects, create_sampler is called once at most for
\* each sampler state; until the context is dropped no sampler is deleted
\* and every sampler made is held by the driver and by the cache; once the
\* context is dropped no unit has a sampler bound, every sampler made has
\* been deleted by exactly one call and the driver holds none.
C32_OneSamplerPerState ==
    /\ \A state \in SamplerObjectStates : Len(so_made[state]) <= 1
    /\ ~so_dropped =>
          /\ \A s \in SamplerHandles : so_deleted[s] = 0
          /\ so_gl_alive = SamplersMade
          /\ \A state \in SamplerObjectStates :
                so_made[state] # <<>> => so_cache[state] = so_made[state][1]
    /\ so_dropped =>
          /\ \A u \in SamplerUnits : so_gl_bound[u] = 0
          /\ \A s \in SamplerHandles :
                so_deleted[s] = IF s \in SamplersMade THEN 1 ELSE 0
          /\ so_gl_alive = {}

\* a context is dropped after bind_sampler calls that asked for each of
\* the three states, some of them more than once: three samplers were
\* made, one for each state, and each was deleted once
C32_Witness ==
    /\ so_dropped
    /\ so_binds = MaxSamplerBinds
    /\ Cardinality(SamplersMade) = 3
    /\ \A state \in SamplerObjectStates : Len(so_made[state]) = 1
    /\ \A s \in SamplersMade : so_deleted[s] = 1
    /\ \A u \in SamplerUnits : so_units[u] # "default"


(***************************************************************************)
(* More claims about texture units and samplers, checked under TexSpec.    *)
(***************************************************************************)
\* a draw call on a context with sampler objects and two units at least
\* has applied a list that passes one texture under two names with two
\* sampler states
TwoStatesDrawn ==
    /\ sampler_objects
    /\ texture_unit_limit >= 2
    /\ BindingsDone
    /\ last_draw.twice

\* C33, as stated: with sampler objects, a draw call that passes one
\* texture under two sampler names with two sampler states binds it on two
\* units, the driver samples each of the two units with the state asked
\* under its name, each sampler uniform holds its unit, and no binding of
\* the call changes the sampler of a unit the call has claimed already.
C33_TwoStatesTwoUnits ==
    TwoStatesDrawn =>
        /\ last_draw.applied
        /\ last_draw.split
        /\ last_draw.driver_samplers
        /\ ~last_draw.claimed_resampled

\* what does hold of such a draw call: two units, the sampler uniforms,
\* the states the mirror records and no change on a claimed unit
C33_TwoUnitsInMirror ==
    TwoStatesDrawn =>
        /\ last_draw.applied
        /\ last_draw.split
        /\ last_draw.mirror_samplers
        /\ ~last_draw.claimed_resampled

\* C33: the state asked for one of the names is SamplerState::default(),
\* which the mirror holds for a unit that never had a sampler object: the
\* unit is left without one and the driver samples it with the parameters
\* the texture was made with
C33_UnitLeftWithoutSampler ==
    /\ TwoStatesDrawn
    /\ last_draw.split
    /\ last_draw.mirror_samplers
    /\ ~last_draw.driver_samplers
    /\ \E u \in Units :
          /\ gl_texture_units[u] # 0
          /\ gl_samplers[u] = "none"
          /\ texture_units[u].sampler = "default"
          /\ gl_tex_params[gl_texture_units[u]] = GlInitialTexParams


(***************************************************************************)
(* Claims about the tokens of fallback draw descriptors, checked under     *)
(* TokenSpec.                                                              *)
(***************************************************************************)
\* C34: without vertex array objects the ids of the descriptors made start
\* at 1 and grow strictly in the order of creation, so that no two
\* descriptors, alive or dropped, share one and none is 0, the value of
\* current that stands for no descriptor; and a bind of the descriptor
\* whose id current holds makes no call to the driver and leaves the cache
\* as it is.
C34_TokensUniqueAndBindFree ==
    /\ \A k \in DOMAIN tk_made :
          /\ tk_made[k].id >= 1
          /\ k = 1 => tk_made[k].id = 1
          /\ k > 1 => tk_made[k].id > tk_made[k - 1].id
    /\ tk_cache.current \in {0} \cup {tk_made[k].id : k \in DOMAIN tk_made}
    /\ (tk_op.kind = "bind" /\ tk_op.hit) =>
          /\ tk_op.calls = 0
          /\ tk_cache.current = tk_made[tk_op.made].id

\* the third descriptor made, with an index and a vertex buffer that are
\* not the ones bound, is bound twice in a row after the first was dropped:
\* the second bind finds its id in current and calls nothing
C34_Witness ==
    /\ Len(tk_made) = 3
    /\ 1 \notin tk_alive
    /\ tk_op.kind = "bind"
    /\ tk_op.made = 3
    /\ tk_op.hit
    /\ tk_op.calls = 0
    /\ tk_made[3].id = 3
    /\ tk_cache.current = 3
    /\ tk_made[3].vertex # 0


(***************************************************************************)
(* Claims about the uniforms of shader programs, checked under             *)
(* UniformSpec.                                                            *)
(***************************************************************************)
\* C35: after a draw call with a uniform buffer, every attribute of the
\* layout that the shader declares has in the shader's program the bytes
\* the buffer holds for it, and an attribute whose upload was skipped has
\* the bytes that the last draw with this shader held for it, that draw
\* having had the same layout; for draws with any shaders and layouts in
\* any order.
C35_UniformsHeldByProgram ==
    un_op.kind = "draw" => un_op.applied /\ un_op.justified

\* a draw with shader 1 skipped x and uploaded y after draws with another
\* layout and with the other shader had come in between
C35_Witness ==
    /\ un_op.kind = "draw"
    /\ un_op.shader = 1
    /\ un_op.layout = "F"
    /\ un_op.skipped = {"x"}
    /\ un_op.uploaded = {"y"}
    /\ un_op.applied
    /\ un_cache[2].format = "G"
    /\ un_gl[1]["x"] # un_gl[2]["x"]
    /\ un_gl[1]["y"] = <<1, 0>>


(***************************************************************************)
(* Claims about the two paths of a blit, checked under PathSpec.           *)
(***************************************************************************)
\* C36: for every rectangle read and every flip (None, X, Y, XY and
\* FullFlipY), the native path and the fallback path read the same pixel
\* for each pixel written, and that pixel lies in the rectangle read.
C36_PathsReadSamePixels ==
    bp_source # None =>
       /\ bp_native = bp_quad
       /\ \A pixel \in DOMAIN bp_quad :
             bp_quad[pixel] \in RectPixels(bp_source[1].rect)

\* a blit of a part of the framebuffer, flipped along X and stretched,
\* that reads a pixel other than the one it writes
C36_Witness ==
    /\ bp_source # None
    /\ bp_source[1].kind = "Pixel"
    /\ bp_source[1].flip = "X"
    /\ bp_source[1].rect.w < bp_destination.w
    /\ bp_source[1].rect.x > 0
    /\ bp_destination.h > 1
    /\ bp_native = bp_quad
    /\ \E pixel \in DOMAIN bp_quad :
          /\ bp_quad[pixel][1] # pixel[1]
          /\ bp_quad[pixel][2] # pixel[2]

=============================================================================
